---- MODULE Spec2Model ----
(***************************************************************************)
(* A model of the paltoquet word tokenizer (src/src/tokenizers/words.rs):  *)
(* the WordTokens scanner, the WordTokenKind names, the junk heuristic     *)
(* and the WordTokenizer / WordTokenizerBuilder configuration layer.       *)
(*                                                                         *)
(* A text is a sequence of characters; an ASCII character is the string   *)
(* holding it ("a", "'", "-"), any other codepoint is named by its number  *)
(* ("U+0010" a control character, "U+00E9" e acute, "U+2019" the right     *)
(* single quotation mark, "U+2B50" the star emoji).  Rust byte offsets     *)
(* are recovered with Utf8Len.                                             *)
(***************************************************************************)
EXTENDS Integers, Sequences, FiniteSets, TLC

(***************************************************************************)
(* Unicode character classes, restricted to the characters of the model.   *)
(***************************************************************************)
LowerChars ==
    << "a", "b", "c", "d", "e", "f", "g", "h", "i", "j", "k", "l", "m",
       "n", "o", "p", "q", "r", "s", "t", "u", "v", "w", "x", "y", "z",
       "U+00E9", "U+00E0", "U+0153" >>

UpperChars ==
    << "A", "B", "C", "D", "E", "F", "G", "H", "I", "J", "K", "L", "M",
       "N", "O", "P", "Q", "R", "S", "T", "U", "V", "W", "X", "Y", "Z",
       "U+00C9", "U+00C0", "U+0152" >>

Range(f) == { f[i] : i \in DOMAIN f }

Lower == Range(LowerChars)

\* \p{Lu}
Upper == Range(UpperChars)

\* \p{Alpha}: the letters, plus the ordinal indicator (Lo, neither case)
Alpha == Lower \cup Upper \cup { "U+00BA" }

\* \p{Digit} (general category Nd)
Digit == { "0", "1", "2", "3", "4", "5", "6", "7", "8", "9" }

AlphaDigit == Alpha \cup Digit

\* char::is_alphanumeric: Alphabetic or Numeric (Nd, Nl, No); the subscript
\* two is No, so it is alphanumeric without being \p{Alpha} or \p{Digit}
Alphanumeric == Alpha \cup Digit \cup { "U+2082" }

\* char::is_whitespace and the regex class \s (White_Space)
Whitespace == { " ", "\t", "\n", "U+00A0" }

\* the codepoints <= 0x1F
AsciiControl == { "\t", "\n", "U+0001", "U+0010" }

\* ['\u{2019}]
Apostrophes == { "'", "U+2019" }

\* [\-_\u{b7}]
Joiners == { "-", "_", "U+00B7" }

\* \p{Regional_indicator}
RegionalIndicator == { "U+1F1EB", "U+1F1F7" }

\* \p{Emoji_Modifier}
EmojiModifier == { "U+1F3FE" }

\* \p{Emoji_Modifier_Base}
EmojiModifierBase == { "U+1F64F", "U+1F44D", "U+1F468", "U+1F467" }

\* \p{Emoji_Presentation}
EmojiPresentation ==
    { "U+2B50", "U+26BD", "U+1F431", "U+1F64F", "U+1F44D", "U+1F468",
      "U+1F467", "U+1F3FE", "U+1F1EB", "U+1F1F7" }

\* \p{Emoji}: also the ASCII digits, '#' and '*'
Emoji == EmojiPresentation \cup Digit \cup { "#", "*" }

VariationSelector == "U+FE0F"

ZeroWidthJoiner == "U+200D"

\* \w of the regex crate: Alphabetic, Mark, Decimal_Number,
\* Connector_Punctuation, Join_Control
WordChars == Alpha \cup Digit \cup { "_", VariationSelector, ZeroWidthJoiner }

\* char::len_utf8
Utf8Len(c) ==
    IF c \in { "U+00E9", "U+00E0", "U+0153", "U+00C9", "U+00C0", "U+0152",
               "U+00BA", "U+00B7", "U+00BB", "U+00A0" } THEN 2
    ELSE IF c \in { "U+2019", "U+2B50", "U+26BD", "U+20AC", "U+2082",
                    VariationSelector, ZeroWidthJoiner } THEN 3
    ELSE IF c \in { "U+1F431", "U+1F64F", "U+1F44D", "U+1F468", "U+1F467",
                    "U+1F3FE", "U+1F1EB", "U+1F1F7" } THEN 4
    ELSE 1

RECURSIVE ByteLen(_)
\* str::len: the length in bytes
ByteLen(s) == IF s = << >> THEN 0 ELSE Utf8Len(Head(s)) + ByteLen(Tail(s))

ToLowerFn ==
    [ c \in Upper |->
        LowerChars[CHOOSE i \in DOMAIN UpperChars : UpperChars[i] = c] ]

\* simple case folding, as applied by the (?i) flag
Fold(c) == IF c \in Upper THEN ToLowerFn[c] ELSE c

FoldSeq(s) == [ i \in 1..Len(s) |-> Fold(s[i]) ]

(***************************************************************************)
(* Regex building blocks.  A match always starts at the first character of *)
(* the haystack (every pattern is anchored with ^); a matcher returns the  *)
(* number of characters matched, or 0 when the pattern does not match      *)
(* (no pattern of the program matches the empty string).                   *)
(***************************************************************************)
Drop(s, n) == SubSeq(s, n + 1, Len(s))

Take(s, n) == SubSeq(s, 1, n)

Min(S) == CHOOSE x \in S : \A y \in S : x <= y

\* the end of the greedy run of characters of class C that starts at i
\* (i - 1 when the run is empty)
RunEnd(s, i, C) ==
    LET stops == { k \in i..Len(s) : s[k] \notin C }
    IN  IF stops = {} THEN Len(s) ELSE Min(stops) - 1

IsWordAt(s, k) == k >= 1 /\ k <= Len(s) /\ s[k] \in WordChars

\* \b between the characters k and k + 1 of s
WordBoundary(s, k) == IsWordAt(s, k) # IsWordAt(s, k + 1)

\* s, from its character i on, reads w once case-folded
FoldedAt(s, i, w) ==
    /\ i + Len(w) - 1 <= Len(s)
    /\ \A k \in 1..Len(w) : Fold(s[i + k - 1]) = w[k]

(***************************************************************************)
(* SIMPLE_PATTERNS, in the order of the table (the order decides).         *)
(***************************************************************************)
\* "(?i)^[#$]\p{Alpha}[\p{Alpha}\p{Digit}]+\b"
HashtagMatch(s) ==
    IF Len(s) >= 3 /\ s[1] \in { "#", "$" } /\ s[2] \in Alpha
                   /\ s[3] \in AlphaDigit
    THEN LET e == RunEnd(s, 3, AlphaDigit)
         IN  IF WordBoundary(s, e) THEN e ELSE 0
    ELSE 0

\* "(?i)^@\p{Alpha}[\p{Alpha}\p{Digit}_]+\b"
MentionMatch(s) ==
    IF Len(s) >= 3 /\ s[1] = "@" /\ s[2] \in Alpha
                   /\ s[3] \in AlphaDigit \cup { "_" }
    THEN LET e == RunEnd(s, 3, AlphaDigit \cup { "_" })
         IN  IF WordBoundary(s, e) THEN e ELSE 0
    ELSE 0

\* the number pattern without its final \b
NumberMatchNoBoundary(s) ==
    LET first == IF Len(s) >= 1 /\ s[1] = "-" THEN 2 ELSE 1
        d == RunEnd(s, first, Digit)
        g == IF d + 2 <= Len(s) /\ s[d + 1] \in { ".", "," }
                                /\ s[d + 2] \in Digit
             THEN RunEnd(s, d + 2, Digit)
             ELSE 0
    IN  IF d < first THEN 0
        ELSE IF g > 0 THEN g
        ELSE d

\* "^-?\p{Digit}+(?:[.,]\p{Digit}+)?\b": the decimal part is tried first
\* and given up when no word boundary follows it
NumberMatch(s) ==
    LET first == IF Len(s) >= 1 /\ s[1] = "-" THEN 2 ELSE 1
        d == RunEnd(s, first, Digit)
        g == IF d + 2 <= Len(s) /\ s[d + 1] \in { ".", "," }
                                /\ s[d + 2] \in Digit
             THEN RunEnd(s, d + 2, Digit)
             ELSE 0
    IN  IF d < first THEN 0
        ELSE IF g > 0 /\ WordBoundary(s, g) THEN g
        ELSE IF WordBoundary(s, d) THEN d
        ELSE 0

RECURSIVE ZwjSequenceEnd(_, _)
\* (?:\u{200d}\p{Emoji})+ continued from the end e of what is matched so far
ZwjSequenceEnd(s, e) ==
    IF e + 2 <= Len(s) /\ s[e + 1] = ZeroWidthJoiner /\ s[e + 2] \in Emoji
    THEN ZwjSequenceEnd(s, e + 2)
    ELSE e

\* an optional trailing \u{fe0f}
WithSelector(s, e) ==
    IF e + 1 <= Len(s) /\ s[e + 1] = VariationSelector THEN e + 1 ELSE e

\* the emoji pattern: regional indicators | ZWJ sequence | modifier
\* sequence | emoji presentation, the first alternative that matches
EmojiMatch(s) ==
    IF s = << >> THEN 0
    ELSE IF s[1] \in RegionalIndicator THEN RunEnd(s, 1, RegionalIndicator)
    ELSE IF s[1] \in Emoji /\ ZwjSequenceEnd(s, 1) > 1
         THEN WithSelector(s, ZwjSequenceEnd(s, 1))
    ELSE IF s[1] \in EmojiModifierBase
         THEN IF Len(s) >= 3 /\ s[2] = VariationSelector
                             /\ s[3] \in EmojiModifier THEN 3
              ELSE IF Len(s) >= 2 /\ s[2] \in EmojiModifier THEN 2
              ELSE 1
    ELSE IF s[1] \in EmojiPresentation THEN WithSelector(s, 1)
    ELSE 0

\* app?t|etc|[djs]r|prof|mlle|mgr|min|mrs|m[rs]|m|no|pp?|st|vs
Abbreviations ==
    { <<"a", "p", "t">>, <<"a", "p", "p", "t">>, <<"e", "t", "c">>,
      <<"d", "r">>, <<"j", "r">>, <<"s", "r">>, <<"p", "r", "o", "f">>,
      <<"m", "l", "l", "e">>, <<"m", "g", "r">>, <<"m", "i", "n">>,
      <<"m", "r", "s">>, <<"m", "r">>, <<"m", "s">>, <<"m">>, <<"n", "o">>,
      <<"p">>, <<"p", "p">>, <<"s", "t">>, <<"v", "s">> }

\* "(?i)^(?:app?t|etc|...|vs)\."
AbbreviationMatch(s) ==
    LET hits == { w \in Abbreviations : FoldedAt(s, 1, w \o << "." >>) }
    IN  IF hits = {} THEN 0 ELSE Len(CHOOSE w \in hits : TRUE) + 1

\* "(?i)^https?://[^\s,;]+"
UrlMatch(s) ==
    LET p == IF FoldedAt(s, 1, <<"h", "t", "t", "p", "s", ":", "/", "/">>)
             THEN 8
             ELSE IF FoldedAt(s, 1, <<"h", "t", "t", "p", ":", "/", "/">>)
             THEN 7
             ELSE 0
        stops == { k \in (p + 1)..Len(s) :
                     s[k] \in Whitespace \cup { ",", ";" } }
        e == IF stops = {} THEN Len(s) ELSE Min(stops) - 1
    IN  IF p > 0 /\ e > p THEN e ELSE 0

\* [a-z0-9!#$%&*+\-/=?^_\x60{|}~] under (?i)
EmailLocalChars ==
    { c \in Alpha : Fold(c) \in Range(SubSeq(LowerChars, 1, 26)) }
    \cup Digit
    \cup { "!", "#", "$", "%", "&", "*", "+", "-", "/", "=", "?", "^", "_",
           "U+0060", "{", "|", "}", "~" }

\* [a-z] under (?i)
AsciiLetters == { c \in Alpha : Fold(c) \in Range(SubSeq(LowerChars, 1, 26)) }

EmailLocalMax == 64

EmailLabelMin == 2

EmailLabelMax == 8

RECURSIVE EmailLabelsEnd(_, _)
\* (?:\.[a-z]{2,8})* continued from the end e of what is matched so far
EmailLabelsEnd(s, e) ==
    LET r == RunEnd(s, e + 2, AsciiLetters)
        n == r - (e + 1)
    IN  IF e + 1 <= Len(s) /\ s[e + 1] = "." /\ n >= EmailLabelMin
        THEN EmailLabelsEnd(s, IF n > EmailLabelMax
                               THEN e + 1 + EmailLabelMax ELSE r)
        ELSE e

\* "^(?i)[a-z0-9!#$%&*+\-/=?^_\x60{|}~]{1,64}@[a-z]{2,8}\.[a-z]{2,8}(?:\.[a-z]{2,8})*"
EmailMatch(s) ==
    LET l == RunEnd(s, 1, EmailLocalChars)
        d == RunEnd(s, l + 2, AsciiLetters)
    IN  IF /\ l >= 1 /\ l <= EmailLocalMax
           /\ l + 1 <= Len(s) /\ s[l + 1] = "@"
           /\ d - (l + 1) >= EmailLabelMin /\ d - (l + 1) <= EmailLabelMax
           /\ EmailLabelsEnd(s, d) > d
        THEN EmailLabelsEnd(s, d)
        ELSE 0

RECURSIVE AcronymGroupsEnd(_, _)
\* (?:\.\p{Lu})+ continued from the end e of what is matched so far
AcronymGroupsEnd(s, e) ==
    IF e + 2 <= Len(s) /\ s[e + 1] = "." /\ s[e + 2] \in Upper
    THEN AcronymGroupsEnd(s, e + 2)
    ELSE e

\* "^\p{Lu}(?:\.\p{Lu})+\.?"
AcronymMatch(s) ==
    IF s # << >> /\ s[1] \in Upper /\ AcronymGroupsEnd(s, 1) > 1
    THEN LET e == AcronymGroupsEnd(s, 1)
         IN  IF e + 1 <= Len(s) /\ s[e + 1] = "." THEN e + 1 ELSE e
    ELSE 0

\* "^\p{Alpha}+(?:\s|$)": the match takes the whitespace in
BasicWordMatch(s) ==
    LET e == RunEnd(s, 1, Alpha)
    IN  IF e < 1 THEN 0
        ELSE IF e = Len(s) THEN e
        ELSE IF s[e + 1] \in Whitespace THEN e + 1
        ELSE 0

\* the kinds of SIMPLE_PATTERNS, by index
SimplePatternKinds ==
    << "Hashtag", "Mention", "Number", "Emoji", "Word", "Url", "Email",
       "Word", "Word" >>

\* the match of each pattern of SIMPLE_PATTERNS, by index
SimplePatternEnds(s) ==
    << HashtagMatch(s), MentionMatch(s), NumberMatch(s), EmojiMatch(s),
       AbbreviationMatch(s), UrlMatch(s), EmailMatch(s), AcronymMatch(s),
       BasicWordMatch(s) >>

\* a search with a multi-pattern regex whose patterns match up to `ends`:
\* the first pattern that matches (0 when none does) and the end of its
\* match (0 when none)
FirstMatch(ends) ==
    IF \A p \in DOMAIN ends : ends[p] = 0 THEN [pattern |-> 0, end |-> 0]
    ELSE LET first == Min({ p \in DOMAIN ends : ends[p] > 0 })
         IN  [pattern |-> first, end |-> ends[first]]

\* SIMPLE_PATTERNS_REGEX.find
SimplePatternsFind(s) == FirstMatch(SimplePatternEnds(s))

(***************************************************************************)
(* APOSTROPHE_REGEX: five patterns, the first that matches decides; each   *)
(* matcher returns the end of capture group 1, or 0.                       *)
(***************************************************************************)
\* VOWELS, of which the model has these, under (?i)
Vowels ==
    { c \in Alpha :
        Fold(c) \in { "a", "e", "i", "o", "u", "y", "U+00E9", "U+00E0",
                      "U+0153" } }

\* CONSONANTS_APOSTROPHE under (?i)
ConsonantsApostrophe ==
    { c \in Alpha : Fold(c) \in { "c", "d", "j", "l", "m", "n", "s", "t" } }

\* LETTERS_START_NAME under (?i)
LettersStartName ==
    { c \in Alpha : Fold(c) \in { "d", "l", "m", "n", "o" } }

\* ll|re|ve|[dms]
Enclitics == { <<"l", "l">>, <<"r", "e">>, <<"v", "e">>, <<"d">>, <<"m">>,
               <<"s">> }

\* twas|tis|ll|re|ve|[dms]
BareEnclitics == { <<"t", "w", "a", "s">>, <<"t", "i", "s">> } \cup Enclitics

\* the end of the one word of W that s reads from its character i on and
\* that a word boundary follows (no word of W is a prefix of another), or 0
EncliticEnd(s, i, W) ==
    LET hits == { w \in W : /\ FoldedAt(s, i, w)
                            /\ WordBoundary(s, i + Len(w) - 1) }
    IN  IF hits = {} THEN 0 ELSE i + Len(CHOOSE w \in hits : TRUE) - 1

\* "(?i)^(aujourd['\u{2019}]hui|\p{Alpha}+n['\u{2019}]t)"
ElisionMatch(s) ==
    LET a == RunEnd(s, 1, Alpha)
    IN  IF /\ FoldedAt(s, 1, <<"a", "u", "j", "o", "u", "r", "d">>)
           /\ Len(s) >= 11 /\ s[8] \in Apostrophes
           /\ FoldedAt(s, 9, <<"h", "u", "i">>)
        THEN 11
        ELSE IF /\ a >= 2 /\ Fold(s[a]) = "n"
                /\ a + 2 <= Len(s) /\ s[a + 1] \in Apostrophes
                /\ Fold(s[a + 2]) = "t"
        THEN a + 2
        ELSE 0

\* "(?i)^(['\u{2019}](?:twas|tis|ll|re|ve|[dms]))\b"
BareEncliticMatch(s) ==
    IF s # << >> /\ s[1] \in Apostrophes
    THEN EncliticEnd(s, 2, BareEnclitics)
    ELSE 0

\* the article pattern without its final \b
ArticleMatchNoBoundary(s) ==
    LET c == IF FoldedAt(s, 1, <<"q", "u">>) THEN 2
             ELSE IF s # << >> /\ s[1] \in ConsonantsApostrophe THEN 1
             ELSE 0
    IN  IF /\ c > 0 /\ c + 2 <= Len(s)
           /\ s[c + 1] \in Apostrophes
           /\ (s[c + 2] \in Vowels \/ Fold(s[c + 2]) = "h"
                 \/ s[c + 2] \in { "#", "@" })
        THEN c + 1
        ELSE 0

\* "(?i)^((?:qu|[cdjlmnst])['\u{2019}])[<VOWELS>h#@]\p{Alpha}*\b"
ArticleMatch(s) ==
    LET c == IF FoldedAt(s, 1, <<"q", "u">>) THEN 2
             ELSE IF s # << >> /\ s[1] \in ConsonantsApostrophe THEN 1
             ELSE 0
    IN  IF /\ c > 0 /\ c + 2 <= Len(s)
           /\ s[c + 1] \in Apostrophes
           /\ (s[c + 2] \in Vowels \/ Fold(s[c + 2]) = "h"
                 \/ s[c + 2] \in { "#", "@" })
           /\ \E e \in (c + 2)..RunEnd(s, c + 3, Alpha) : WordBoundary(s, e)
        THEN c + 1
        ELSE 0

\* the contraction pattern with its group around the whole match
ContractionMatchWhole(s) ==
    IF /\ Len(s) >= 3 /\ s[1] \in Alpha /\ s[2] \in Apostrophes
       /\ EncliticEnd(s, 3, Enclitics) > 0
    THEN EncliticEnd(s, 3, Enclitics)
    ELSE 0

\* the contraction pattern without its final \b
ContractionMatchNoBoundary(s) ==
    IF /\ Len(s) >= 3 /\ s[1] \in Alpha /\ s[2] \in Apostrophes
       /\ \E w \in Enclitics : FoldedAt(s, 3, w)
    THEN 1
    ELSE 0

\* "(?i)^(\p{Alpha})['\u{2019}](?:ll|re|ve|[dms])\b"
ContractionMatch(s) ==
    IF /\ Len(s) >= 3 /\ s[1] \in Alpha /\ s[2] \in Apostrophes
       /\ EncliticEnd(s, 3, Enclitics) > 0
    THEN 1
    ELSE 0

\* the name pattern with any letter for initial
NameMatchAnyInitial(s) ==
    IF /\ Len(s) >= 3 /\ s[1] \in Alpha /\ s[2] \in Apostrophes
       /\ s[3] \in Alpha
       /\ WordBoundary(s, RunEnd(s, 3, Alpha))
    THEN RunEnd(s, 3, Alpha)
    ELSE 0

\* "(?i)^((?:[dlmno])['\u{2019}]\p{Alpha}+)\b"
NameMatch(s) ==
    IF /\ Len(s) >= 3 /\ s[1] \in LettersStartName /\ s[2] \in Apostrophes
       /\ s[3] \in Alpha
       /\ WordBoundary(s, RunEnd(s, 3, Alpha))
    THEN RunEnd(s, 3, Alpha)
    ELSE 0

\* the end of group 1 for each pattern of APOSTROPHE_REGEX, by index
ApostropheEnds(s) ==
    << ElisionMatch(s), BareEncliticMatch(s), ArticleMatch(s),
       ContractionMatch(s), NameMatch(s) >>

\* captures that look at the name pattern before the four others
ApostropheCapturesNameFirst(s) ==
    IF NameMatch(s) > 0 THEN [pattern |-> 5, end |-> NameMatch(s)]
    ELSE FirstMatch(ApostropheEnds(s))

\* APOSTROPHE_REGEX.captures: the first pattern that matches (0 when none)
\* and the end of its group 1
ApostropheCaptures(s) == FirstMatch(ApostropheEnds(s))

(***************************************************************************)
(* COMPOUND_WORD_REGEX and FRENCH_ILLEGAL_COMPOUND_REGEX                   *)
(***************************************************************************)
RECURSIVE CompoundGroupsEnd(_, _)
\* (?:[\-_\u{b7}]+[\p{Alpha}\p{Digit}]['\u{2019}\p{Alpha}\p{Digit}]*)+
\* continued from the end e of what is matched so far
CompoundGroupsEnd(s, e) ==
    LET j == RunEnd(s, e + 1, Joiners)
    IN  IF j > e /\ j + 1 <= Len(s) /\ s[j + 1] \in AlphaDigit
        THEN CompoundGroupsEnd(s,
                 RunEnd(s, j + 1, AlphaDigit \cup Apostrophes))
        ELSE e

\* the compound pattern whose first joiner is no '_'
CompoundWordMatchNoUnderscore(s) ==
    LET e == RunEnd(s, 1, AlphaDigit)
    IN  IF e >= 1 /\ CompoundGroupsEnd(s, e) > e /\ s[e + 1] # "_"
        THEN CompoundGroupsEnd(s, e)
        ELSE 0

\* COMPOUND_WORD_REGEX.find
CompoundWordMatch(s) ==
    LET e == RunEnd(s, 1, AlphaDigit)
    IN  IF e >= 1 /\ CompoundGroupsEnd(s, e) > e
        THEN CompoundGroupsEnd(s, e)
        ELSE 0

\* je|tu|ils?|elles?|[nv]ous|on|les?|la|moi|toi|lui|y
Clitics ==
    { <<"j", "e">>, <<"t", "u">>, <<"i", "l">>, <<"i", "l", "s">>,
      <<"e", "l", "l", "e">>, <<"e", "l", "l", "e", "s">>,
      <<"n", "o", "u", "s">>, <<"v", "o", "u", "s">>, <<"o", "n">>,
      <<"l", "e">>, <<"l", "e", "s">>, <<"l", "a">>, <<"m", "o", "i">>,
      <<"t", "o", "i">>, <<"l", "u", "i">>, <<"y">> }

\* FRENCH_ILLEGAL_COMPOUND_REGEX.is_match: the span ends with a hyphen and
\* a clitic (the optional "-t" in front changes nothing to is_match)
FrenchIllegalCompound(span) ==
    \E w \in Clitics :
        /\ Len(span) >= Len(w) + 1
        /\ FoldedAt(span, Len(span) - Len(w), << "-" >> \o w)

(***************************************************************************)
(* The WordTokens scanner.  Its whole state is `input`, the suffix of the  *)
(* text not consumed yet.                                                  *)
(***************************************************************************)
\* is_ascii_junk_or_whitespace
IsAsciiJunkOrWhitespace(c) == c \in AsciiControl \/ c \in Whitespace

\* str::trim_end
TrimEnd(s) ==
    LET keep == { k \in 1..Len(s) : s[k] \notin Whitespace }
    IN  IF keep = {} THEN << >>
        ELSE Take(s, CHOOSE k \in keep : \A m \in keep : m <= k)

\* chomp that trims the control characters only
ChompControlOnly(s) ==
    LET keep == { k \in 1..Len(s) : s[k] \notin AsciiControl }
    IN  IF keep = {} THEN << >> ELSE Drop(s, Min(keep) - 1)

\* chomp that trims the whitespace only
ChompWhitespaceOnly(s) ==
    LET keep == { k \in 1..Len(s) : s[k] \notin Whitespace }
    IN  IF keep = {} THEN << >> ELSE Drop(s, Min(keep) - 1)

\* WordTokens::chomp: the input left once the leading junk is trimmed
Chomp(s) ==
    LET keep == { k \in 1..Len(s) : ~IsAsciiJunkOrWhitespace(s[k]) }
    IN  IF keep = {} THEN << >> ELSE Drop(s, Min(keep) - 1)

\* split_at that leaves the last character of the text in the input
SplitAtOffByOne(s, i) ==
    LET t == TrimEnd(Take(s, i))
    IN  [text |-> t, input |-> IF t = << >> THEN s ELSE Drop(s, Len(t) - 1)]

\* split_at that returns the text and forgets to advance the input
SplitAtKeepsInput(s, i) == [text |-> TrimEnd(Take(s, i)), input |-> s]

\* WordTokens::split_at: the text returned and the input left
SplitAt(s, i) ==
    LET t == TrimEnd(Take(s, i))
    IN  [text |-> t, input |-> Drop(s, Len(t))]

NoToken == [some |-> FALSE]

Token(k, split, branch) ==
    [some |-> TRUE, kind |-> k, text |-> split.text,
     input |-> split.input, branch |-> branch]

\* the index of the last '-' of s
LastHyphen(s) ==
    CHOOSE k \in 1..Len(s) :
        s[k] = "-" /\ \A j \in (k + 1)..Len(s) : s[j] # "-"

\* the index of the first '-' of s
FirstHyphen(s) == Min({ k \in 1..Len(s) : s[k] = "-" })

\* the French branch of parse_compound_word: the text before the first
\* hyphen i of the match, the input after that hyphen
CutAtHyphen(s, i) ==
    Token("Word", [text |-> Take(s, i - 1), input |-> Drop(s, i)], "clitic")

\* the same, resuming two characters after the hyphen
CutAfterHyphen(s, i) ==
    Token("Word", [text |-> Take(s, i - 1), input |-> Drop(s, i + 1)],
          "clitic")

\* parse_compound_word on the match m = COMPOUND_WORD_REGEX.find(input),
\* resuming two characters after the hyphen in the French branch
CompoundWordSkipsTwo(s, e) ==
    IF e = 0 THEN NoToken
    ELSE IF ~FrenchIllegalCompound(Take(s, e))
    THEN Token("Word", SplitAt(s, e), "compound")
    ELSE CutAfterHyphen(s, FirstHyphen(Take(s, e)))

\* parse_compound_word on the match m = COMPOUND_WORD_REGEX.find(input),
\* of end e (0 for no match)
CompoundWord(s, e) ==
    IF e = 0 THEN NoToken
    ELSE IF ~FrenchIllegalCompound(Take(s, e))
    THEN Token("Word", SplitAt(s, e), "compound")
    ELSE CutAtHyphen(s, FirstHyphen(Take(s, e)))

\* WordTokens::parse_compound_word
ParseCompoundWord(s) == CompoundWord(s, CompoundWordMatch(s))

\* parse_simple_pattern on the match m = SIMPLE_PATTERNS_REGEX.find(input)
SimplePattern(s, m) ==
    IF m.pattern = 0 THEN NoToken
    ELSE Token(SimplePatternKinds[m.pattern], SplitAt(s, m.end), "simple")

\* WordTokens::parse_simple_pattern
ParseSimplePattern(s) == SimplePattern(s, SimplePatternsFind(s))

\* parse_apostrophe_issues on the captures of APOSTROPHE_REGEX
ApostropheIssues(s, caps) ==
    IF caps.pattern = 0 THEN NoToken
    ELSE Token("Word", SplitAt(s, caps.end), "apostrophe")

\* WordTokens::parse_apostrophe_issues
ParseApostropheIssues(s) == ApostropheIssues(s, ApostropheCaptures(s))

\* the end of next(): one codepoint of punctuation, or an alphanumeric run
ParseFallback(s) ==
    IF s[1] \notin Alphanumeric
    THEN Token("Punctuation", SplitAt(s, 1), "punctuation")
    ELSE Token("Word", SplitAt(s, RunEnd(s, 2, Alphanumeric)), "run")

\* "if let Some(..) = a { return a }", then b
OrElse(a, b) == IF a.some THEN a ELSE b

\* next() once chomp has run and left c
NextChomped(c) ==
    IF c = << >> THEN [some |-> FALSE, input |-> c]
    ELSE OrElse(ParseCompoundWord(c),
         OrElse(ParseSimplePattern(c),
         OrElse(ParseApostropheIssues(c), ParseFallback(c))))

\* next() of a scanner that makes no compound-word attempt
NextChompedNoCompound(c) ==
    IF c = << >> THEN [some |-> FALSE, input |-> c]
    ELSE OrElse(ParseSimplePattern(c),
         OrElse(ParseApostropheIssues(c), ParseFallback(c)))

\* <WordTokens as Iterator>::next on the input s: the token returned (if
\* any) and the input left
WordTokensNext(s) == NextChomped(Chomp(s))

\* the token as the caller sees it: its kind and its text, a span of the
\* text of n characters that starts `start` characters in; `branch` records
\* which return of next() produced it
WordToken(r, s, n) ==
    [kind |-> r.kind, text |-> r.text, start |-> n - Len(Chomp(s)),
     branch |-> r.branch]

RECURSIVE ScanRest(_, _)

\* the tokens of a scanner of input s whose next() returns r
ScanStep(r, s, n) ==
    IF r.some THEN << WordToken(r, s, n) >> \o ScanRest(r.input, n)
    ELSE << >>

\* every token of a scanner whose input is s, a suffix of a text of n
\* characters, pulled to exhaustion
ScanRest(s, n) == ScanStep(WordTokensNext(s), s, n)

\* WordTokens::from(t).collect()
ScanAll(t) == ScanRest(t, Len(t))

(***************************************************************************)
(* WordTokenKind and its names                                             *)
(***************************************************************************)
\* enum WordTokenKind
WordTokenKind ==
    { "Word", "Hashtag", "Mention", "Emoji", "Punctuation", "Number", "Url",
      "Email" }

Ok(v) == [ok |-> TRUE, value |-> v]

Err(e) == [ok |-> FALSE, error |-> e]

\* WordTokenKind::as_str
AsStr(k) ==
    CASE k = "Word" -> "word"
      [] k = "Hashtag" -> "hashtag"
      [] k = "Mention" -> "mention"
      [] k = "Emoji" -> "emoji"
      [] k = "Punctuation" -> "punct"
      [] k = "Number" -> "number"
      [] k = "Url" -> "url"
      [] k = "Email" -> "email"

\* from_str whose last arm is a default kind
FromStrDefaultsToWord(str) ==
    CASE str = "word" -> Ok("Word")
      [] str = "hashtag" -> Ok("Hashtag")
      [] str = "mention" -> Ok("Mention")
      [] str = "emoji" -> Ok("Emoji")
      [] str = "punct" -> Ok("Punctuation")
      [] str = "number" -> Ok("Number")
      [] str = "url" -> Ok("Url")
      [] str = "email" -> Ok("Email")
      [] OTHER -> Ok("Word")

\* <WordTokenKind as FromStr>::from_str
FromStr(str) ==
    CASE str = "word" -> Ok("Word")
      [] str = "hashtag" -> Ok("Hashtag")
      [] str = "mention" -> Ok("Mention")
      [] str = "emoji" -> Ok("Emoji")
      [] str = "punct" -> Ok("Punctuation")
      [] str = "number" -> Ok("Number")
      [] str = "url" -> Ok("Url")
      [] str = "email" -> Ok("Email")
      [] OTHER -> Err(<< "unknown word token kind ", str >>)

(***************************************************************************)
(* is_junk                                                                 *)
(***************************************************************************)
\* string.len() > 30
JunkByteLimit == 30

\* *count == 3
RepeatLimit == 3

\* consecutive_vowel_count > 6
VowelRunLimit == 6

\* consecutive_consonant_count > 7
ConsonantRunLimit == 7

None == [some |-> FALSE]

Some(v) == [some |-> TRUE, value |-> v]

\* starts_with_vowel: VOWELS_REGEX, "(?i)^[VOWELS]", matches
StartsWithVowel(s) == s # << >> /\ s[1] \in Vowels

\* the locals of is_junk before the loop
JunkLocals ==
    [ total_vowel_count |-> 0, consecutive_vowel_count |-> 0,
      consecutive_consonant_count |-> 0, has_punct |-> FALSE,
      last_char_opt |-> None ]

\* the first statement of the loop body on the character c: the update of
\* last_char_opt, or None when the function returns true there
RepeatStep(l, c) ==
    IF ~l.last_char_opt.some THEN Some(<< c, 1 >>)
    ELSE IF c # l.last_char_opt.value[1]
    THEN Some(<< c, l.last_char_opt.value[2] >>)
    ELSE IF l.last_char_opt.value[2] = RepeatLimit THEN None
    ELSE Some(<< c, l.last_char_opt.value[2] + 1 >>)

\* the second statement of the loop body, on the rest s of the string
CountStep(l, s) ==
    IF StartsWithVowel(s)
    THEN [l EXCEPT !.consecutive_consonant_count = 0,
                   !.total_vowel_count = @ + 1,
                   !.consecutive_vowel_count = @ + 1]
    ELSE IF s[1] \in Alpha
    THEN [l EXCEPT !.consecutive_vowel_count = 0,
                   !.consecutive_consonant_count = @ + 1]
    ELSE [l EXCEPT !.consecutive_consonant_count = 0,
                   !.consecutive_vowel_count = 0,
                   !.has_punct = TRUE]

RECURSIVE JunkLoop(_, _)

\* one turn of the loop, the repeat check done (rep) and the counts
\* updated (l), then the turns left
JunkTurn(rep, l, s) ==
    IF ~rep.some THEN TRUE
    ELSE IF \/ l.consecutive_vowel_count > VowelRunLimit
            \/ l.consecutive_consonant_count > ConsonantRunLimit
    THEN TRUE
    ELSE JunkLoop([l EXCEPT !.last_char_opt = rep], Tail(s))

\* the loop of is_junk over the characters of s, and the final test
JunkLoop(l, s) ==
    IF s = << >> THEN l.total_vowel_count = 0 /\ ~l.has_punct
    ELSE JunkTurn(RepeatStep(l, s[1]), CountStep(l, s), s)

\* is_junk
IsJunk(string) ==
    IF ByteLen(string) > JunkByteLimit THEN TRUE
    ELSE JunkLoop(JunkLocals, string)

\* is_junk of a token, whatever its kind
TokenIsJunkAnyKind(token) == IsJunk(token.text)

\* WordToken::is_junk
TokenIsJunk(token) ==
    IF token.kind = "Word" THEN IsJunk(token.text) ELSE FALSE

(***************************************************************************)
(* WordTokenizerBuilder                                                    *)
(***************************************************************************)
\* WordTokenizerBuilder::new: the derived Default
BuilderNew ==
    [ stoplist |-> << >>, kind_blacklist |-> {},
      min_token_char_count |-> None, max_token_char_count |-> None,
      filter_junk |-> FALSE ]

\* insert_stopword
InsertStopword(b, stopword) == [b EXCEPT !.stoplist = Append(@, stopword)]

RECURSIVE Stopwords(_, _)
\* stopwords: insert_stopword for each word, in order
Stopwords(b, words) ==
    IF words = << >> THEN b
    ELSE Stopwords(InsertStopword(b, Head(words)), Tail(words))

\* kind_blacklist.clear()
ClearKinds(b) == [b EXCEPT !.kind_blacklist = {}]

\* token_kind_blacklist that inserts without clearing first
TokenKindBlacklistKeeps(b, kinds) ==
    [b EXCEPT !.kind_blacklist = @ \cup kinds]

\* token_kind_blacklist: clear, then insert each kind
TokenKindBlacklist(b, kinds) ==
    [ClearKinds(b) EXCEPT !.kind_blacklist = @ \cup kinds]

\* token_kind_whitelist: clear, then EnumSet::all() - whitelist
TokenKindWhitelist(b, kinds) ==
    [ClearKinds(b) EXCEPT !.kind_blacklist = WordTokenKind \ kinds]

\* min_token_char_count
MinTokenCharCount(b, min) == [b EXCEPT !.min_token_char_count = Some(min)]

\* max_token_char_count
MaxTokenCharCount(b, max) == [b EXCEPT !.max_token_char_count = Some(max)]

\* filter_junk
FilterJunk(b) == [b EXCEPT !.filter_junk = TRUE]

\* the characters regex_syntax::escape puts a backslash before
RegexMeta ==
    { "\\", ".", "+", "*", "?", "(", ")", "|", "[", "]", "{", "}", "^", "$",
      "#", "&", "-", "~" }

\* an escape that leaves every character as it is
RegexEscapeNothing(w) == w

RECURSIVE RegexEscape(_)
\* regex_syntax::escape
RegexEscape(w) ==
    IF w = << >> THEN << >>
    ELSE (IF Head(w) \in RegexMeta THEN << "\\", Head(w) >>
          ELSE << Head(w) >>) \o RegexEscape(Tail(w))

RECURSIVE Join(_, _)
\* [String]::join
Join(parts, sep) ==
    IF parts = << >> THEN << >>
    ELSE IF Len(parts) = 1 THEN parts[1]
    ELSE parts[1] \o << sep >> \o Join(Tail(parts), sep)

\* "(?i)^(?:"
PatternOpen == << "(", "?", "i", ")", "^", "(", "?", ":" >>

\* ")$"
PatternClose == << ")", "$" >>

\* the words of the stoplist that pass the filter |s| !s.is_empty(), each
\* escaped
EscapedStopwords(stoplist) ==
    LET kept == SelectSeq(stoplist, LAMBDA w : w # << >>)
    IN  [ i \in 1..Len(kept) |-> RegexEscape(kept[i]) ]

\* stoplist_pattern as build assembles it
StoplistPattern(stoplist) ==
    PatternOpen \o Join(EscapedStopwords(stoplist), "|") \o PatternClose

\* WordTokenizerBuilder::build
Build(b) ==
    [ stoplist_regex |-> IF b.stoplist # << >>
                         THEN Some(StoplistPattern(b.stoplist)) ELSE None,
      kind_blacklist |-> b.kind_blacklist,
      min_token_char_count |-> b.min_token_char_count,
      max_token_char_count |-> b.max_token_char_count,
      filter_junk |-> b.filter_junk ]

\* WordTokenizer::new: the derived Default
TokenizerNew ==
    [ stoplist_regex |-> None, kind_blacklist |-> {},
      min_token_char_count |-> None, max_token_char_count |-> None,
      filter_junk |-> FALSE ]

(***************************************************************************)
(* The stoplist regex.  The patterns build can compile are                 *)
(* "(?i)^(?:" alt "|" ... "|" alt ")$" where an alternative is a sequence  *)
(* of literal characters, of escapes (a backslash and the character meant) *)
(* and, if a period got through unescaped, of periods that match any       *)
(* character but the line feed.                                            *)
(***************************************************************************)
RECURSIVE SplitAlternatives(_, _)
\* the alternatives of the group body, cut at each '|' that no backslash
\* precedes; cur is the alternative being read
SplitAlternatives(body, cur) ==
    IF body = << >> THEN << cur >>
    ELSE IF body[1] = "\\"
    THEN SplitAlternatives(Drop(body, 2), cur \o Take(body, 2))
    ELSE IF body[1] = "|"
    THEN << cur >> \o SplitAlternatives(Tail(body), << >>)
    ELSE SplitAlternatives(Tail(body), Append(cur, body[1]))

\* the alternatives of a pattern "(?i)^(?:" ... ")$"
Alternatives(pattern) ==
    SplitAlternatives(
        SubSeq(pattern, Len(PatternOpen) + 1,
               Len(pattern) - Len(PatternClose)), << >>)

RECURSIVE MatchesWhole(_, _)
\* the alternative alt, between ^ and $ and under (?i), matches the
\* haystack t
MatchesWhole(alt, t) ==
    IF alt = << >> THEN t = << >>
    ELSE IF t = << >> THEN FALSE
    ELSE IF alt[1] = "\\"
    THEN Fold(alt[2]) = Fold(t[1]) /\ MatchesWhole(Drop(alt, 2), Tail(t))
    ELSE IF alt[1] = "."
    THEN t[1] # "\n" /\ MatchesWhole(Tail(alt), Tail(t))
    ELSE Fold(alt[1]) = Fold(t[1]) /\ MatchesWhole(Tail(alt), Tail(t))

\* Regex::is_match of the compiled stoplist pattern
IsMatch(pattern, t) ==
    \E i \in DOMAIN Alternatives(pattern) :
        MatchesWhole(Alternatives(pattern)[i], t)

(***************************************************************************)
(* WordTokenizer                                                           *)
(***************************************************************************)
\* the length of the text in bytes, where the count of its characters is meant
CharsCountBytes(token) == ByteLen(token.text)

\* token.text.chars().count()
CharsCount(token) == Len(token.text)

\* token_predicate whose junk test does not read the filter_junk flag
TokenPredicateAlwaysJunk(self, token) ==
    IF token.kind \in self.kind_blacklist THEN FALSE
    ELSE IF /\ self.min_token_char_count.some
            /\ CharsCount(token) < self.min_token_char_count.value
    THEN FALSE
    ELSE IF /\ self.max_token_char_count.some
            /\ CharsCount(token) > self.max_token_char_count.value
    THEN FALSE
    ELSE IF /\ self.stoplist_regex.some
            /\ IsMatch(self.stoplist_regex.value, token.text)
    THEN FALSE
    ELSE IF TokenIsJunk(token) THEN FALSE
    ELSE TRUE

\* WordTokenizer::token_predicate
TokenPredicate(self, token) ==
    IF token.kind \in self.kind_blacklist THEN FALSE
    ELSE IF /\ self.min_token_char_count.some
            /\ CharsCount(token) < self.min_token_char_count.value
    THEN FALSE
    ELSE IF /\ self.max_token_char_count.some
            /\ CharsCount(token) > self.max_token_char_count.value
    THEN FALSE
    ELSE IF /\ self.stoplist_regex.some
            /\ IsMatch(self.stoplist_regex.value, token.text)
    THEN FALSE
    ELSE IF self.filter_junk /\ TokenIsJunk(token) THEN FALSE
    ELSE TRUE

(***************************************************************************)
(* Bounds and inputs                                                      *)
(***************************************************************************)
\* the longest text enumerated exhaustively over Alphabet
MaxLen == 3

\* two letters with several roles (m: elision consonant, name initial,
\* enclitic and abbreviation; y: vowel and clitic), a digit, the apostrophe,
\* the hyphen, the period, a space, a control character and a three-byte
\* emoji
Alphabet == { "m", "y", "1", "'", "-", ".", " ", "U+0010", "U+2B50" }

ShortTexts == UNION { [1..n -> Alphabet] : n \in 0..MaxLen }

\* texts, most of them of the test suite, that need more characters than
\* ShortTexts has
GoldenTexts ==
    { \* I can't aujourd'hui.
      << "I", " ", "c", "a", "n", "'", "t", " ", "a", "u", "j", "o", "u",
         "r", "d", "'", "h", "u", "i", "." >>,
      \* va-t-on est-il 15-20-minute vas-y
      << "v", "a", "-", "t", "-", "o", "n", " ", "e", "s", "t", "-", "i",
         "l", " ", "1", "5", "-", "2", "0", "-", "m", "i", "n", "u",
         "t", "e", " ", "v", "a", "s", "-", "y" >>,
      \* mother-in-law.
      << "m", "o", "t", "h", "e", "r", "-", "i", "n", "-", "l", "a", "w",
         "." >>,
      \* O'Hara N'diaye L'Arrivee m'appeler (with e acute)
      << "O", "'", "H", "a", "r", "a", " ", "N", "'", "d", "i", "a", "y",
         "e", " ", "L", "'", "A", "r", "r", "i", "v", "U+00E9", "e",
         " ", "m", "'", "a", "p", "p", "e", "l", "e", "r" >>,
      \* L'#amour l'@ange!
      << "L", "'", "#", "a", "m", "o", "u", "r", " ", "l", "'", "@", "a",
         "n", "g", "e", "!" >>,
      \* I'll be. 'tis a
      << "I", "'", "l", "l", " ", "b", "e", ".", " ", "'", "t", "i", "s",
         " ", "a" >>,
      \* Mr. Goldberg etc.
      << "M", "r", ".", " ", "G", "o", "l", "d", "b", "e", "r", "g", " ",
         "e", "t", "c", "." >>,
      \* Les E.U. sont (with E acute)
      << "L", "e", "s", " ", "U+00C9", ".", "U", ".", " ", "s", "o", "n",
         "t" >>,
      \* #test @yomgui * @yomgui* (with the star emoji for *)
      << "#", "t", "e", "s", "t", " ", "@", "y", "o", "m", "g", "u", "i",
         " ", "U+2B50", " ", "@", "y", "o", "m", "g", "u", "i",
         "U+2B50" >>,
      \* url: https://lemonde.fr/test another
      << "u", "r", "l", ":", " ", "h", "t", "t", "p", "s", ":", "/", "/",
         "l", "e", "m", "o", "n", "d", "e", ".", "f", "r", "/", "t",
         "e", "s", "t", " ", "a", "n", "o", "t", "h", "e", "r" >>,
      \* email:john@whatever.net test@test.com.
      << "e", "m", "a", "i", "l", ":", "j", "o", "h", "n", "@", "w", "h",
         "a", "t", "e", "v", "e", "r", ".", "n", "e", "t", " ", "t",
         "e", "s", "t", "@", "t", "e", "s", "t", ".", "c", "o", "m",
         "." >>,
      \* 2.5 -2 2,5 1.2.3
      << "2", ".", "5", " ", "-", "2", " ", "2", ",", "5", " ", "1", ".",
         "2", ".", "3" >>,
      \* Control:\x01\t\t\n ok? Wo\x10rd
      << "C", "o", "n", "t", "r", "o", "l", ":", "U+0001", "\t", "\t",
         "\n", " ", "o", "k", "?", " ", "W", "o", "U+0010", "r",
         "d" >>,
      \* Un chef-d'oeuvre! (with the oe ligature)
      << "U", "n", " ", "c", "h", "e", "f", "-", "d", "'", "U+0153", "u",
         "v", "r", "e", "!" >>,
      \* star + selector, flag FR, thumbs up + skin tone, man ZWJ girl
      << "U+2B50", "U+FE0F", "U+1F1EB", "U+1F1F7", " ", "U+1F44D",
         "U+1F3FE", " ", "U+1F468", "U+200D", "U+1F467" >>,
      \* subscript two, 11 + ordinal indicator, euro sign + 4, 1_000
      << "U+2082", " ", "1", "1", "U+00BA", " ", "U+20AC", "4", " ", "1",
         "_", "0", "0", "0" >>,
      \* C'est d'ete (with the typographic apostrophe and e acute)
      << "C", "U+2019", "e", "s", "t", " ", "d", "U+2019", "U+00E9", "t",
         "U+00E9" >>,
      \* dis-moi, vas-y! (two of the clitics of the test suite, punctuated)
      << "d", "i", "s", "-", "m", "o", "i", ",", " ", "v", "a", "s", "-",
         "y", "!" >>,
      \* They'll Aren't I'm aujourd'hui
      << "T", "h", "e", "y", "'", "l", "l", " ", "A", "r", "e", "n", "'",
         "t", " ", "I", "'", "m", " ", "a", "u", "j", "o", "u", "r", "d",
         "'", "h", "u", "i" >>,
      \* 2 2.5 -2 -2.5 2,5 1.2.3 2d 7even
      << "2", " ", "2", ".", "5", " ", "-", "2", " ", "-", "2", ".", "5",
         " ", "2", ",", "5", " ", "1", ".", "2", ".", "3", " ", "2", "d",
         " ", "7", "e", "v", "e", "n" >>,
      \* 12@ab.cd #ab@cd.ef (two addresses the Email pattern matches)
      << "1", "2", "@", "a", "b", ".", "c", "d", " ", "#", "a", "b", "@",
         "c", "d", ".", "e", "f" >>,
      \* l'a1 l'# (an article shape that no word boundary ends)
      << "l", "'", "a", "1", " ", "l", "'", "#" >>,
      \* D'mitr M'Leod d's (names, and a contraction a name initial opens)
      << "D", "'", "m", "i", "t", "r", " ", "M", "'", "L", "e", "o", "d",
         " ", "d", "'", "s" >>,
      \* -1_0 2_5.5 1_000_000-y (digits grouped with '_')
      << "-", "1", "_", "0", " ", "2", "_", "5", ".", "5", " ", "1", "_",
         "0", "0", "0", "_", "0", "0", "0", "-", "y" >>,
      \* O.N.U. M.I.T. P.S (acronyms, two of them opened by m or p)
      << "O", ".", "N", ".", "U", ".", " ", "M", ".", "I", ".", "T", ".",
         " ", "P", ".", "S" >>,
      \* Wo\x10rd https://ab\x10cd x (a control character in a URL)
      << "W", "o", "U+0010", "r", "d", " ", "h", "t", "t", "p", "s", ":",
         "/", "/", "a", "b", "U+0010", "c", "d", " ", "x" >>,
      \* Jean--Martin cut--that's
      << "J", "e", "a", "n", "-", "-", "M", "a", "r", "t", "i", "n", " ",
         "c", "u", "t", "-", "-", "t", "h", "a", "t", "'", "s" >> }

\* the texts handed to WordTokenizer::tokenize
TokenizedTexts ==
    { \* Le chat leb ble .
      << "L", "e", " ", "c", "h", "a", "t", " ", "l", "e", "b", " ", "b",
         "l", "e", " ", "." >>,
      \* 1 chat (star emoji, variation selector)
      << "1", " ", "c", "h", "a", "t", " ", "U+2B50", "U+FE0F" >>,
      \* le chat oufehfhhhhhhhh
      << "l", "e", " ", "c", "h", "a", "t", " ", "o", "u", "f", "e", "h",
         "f", "h", "h", "h", "h", "h", "h", "h", "h" >>,
      \* https://lemonde.fr/une/article.html zzz d
      << "h", "t", "t", "p", "s", ":", "/", "/", "l", "e", "m", "o", "n",
         "d", "e", ".", "f", "r", "/", "u", "n", "e", "/", "a", "r", "t",
         "i", "c", "l", "e", ".", "h", "t", "m", "l", " ", "z", "z", "z",
         " ", "d" >>,
      \* C'est bien! (with the right single quotation mark)
      << "C", "U+2019", "e", "s", "t", " ", "b", "i", "e", "n", "!" >> }

Texts == ShortTexts \cup GoldenTexts \cup TokenizedTexts

\* the strs handed to WordTokenKind::from_str
Names ==
    { "word", "hashtag", "mention", "emoji", "punct", "number", "url",
      "email", "Word", "WORD", "punctuation", "Punctuation", "", "words",
      " word", "mail", "link", "emoticon" }

\* the most calls made on one builder before build
MaxCalls == 2

\* the stopwords handed to insert_stopword: le, the empty string, a period
StopwordChoices == { << "l", "e" >>, << >>, << "." >> }

\* the lists handed to stopwords: ["Chat", "ble"]
StopwordLists == { << << "C", "h", "a", "t" >>, << "b", "l", "e" >> >> }

\* the kinds handed to token_kind_blacklist and token_kind_whitelist
KindChoices == { { "Number" }, { "Number", "Emoji" } }

\* the counts handed to min_token_char_count and max_token_char_count
CountChoices == { 2, 3 }

(***************************************************************************)
(* State                                                                   *)
(***************************************************************************)
VARIABLES
    text,       \* the text a scanner was built on
    input,      \* WordTokens.input: the suffix of text not consumed yet
    tokens,     \* the tokens the scanner has returned so far
    last,       \* what the last call of next() returned: "new" before the
                \* first call, then "some" or "none"; "idle": no scanner
    out,        \* the tokens the iterator of tokenize has yielded so far
    kind,       \* a WordTokenKind
    name,       \* a str
    shown,      \* kind.as_str(), once called
    parsed,     \* WordTokenKind::from_str(name), once called
    builder,    \* a WordTokenizerBuilder
    calls,      \* the calls made on the builder, in order
    tokenizer,  \* the WordTokenizer, once built
    word,       \* a string handed to is_junk
    junk,       \* is_junk(word), once called
    hashtagParts,   \* HashtagParts::try_from(hashtag), once called
    emitted,    \* the sub-words the HashtagParts iterator has returned
    partsLast,  \* what the last next() of HashtagParts did: "new", "some",
                \* "none" or "panic"; "idle": no HashtagParts
    items,      \* the sequence ngrams(n) was called on
    ngrams,     \* an NGrams iterator, or an NGramsRange iterator
    grams,      \* the grams the NGrams iterator has returned so far
    gramsLast,  \* what the last next() of NGrams returned: "new", "some"
                \* or "none"; "idle": no NGrams
    hint,       \* size_hint() of the NGrams, once called
    scans       \* the iterators several callers got from tokenize of one
                \* shared tokenizer

scanVars == << text, input, tokens, last >>

kindVars == << kind, name, shown, parsed >>

tokVars == << out, builder, calls, tokenizer >>

junkVars == << word, junk >>

hashVars == << hashtagParts, emitted, partsLast >>

gramVars == << items, ngrams, grams, gramsLast, hint >>

shareVars == << scans >>

\* the state outside words.rs's scanner, kinds and tokenizer
otherVars == << junkVars, hashVars, gramVars, shareVars >>

vars == << scanVars, kindVars, tokVars, otherVars >>

\* no scanner is in use
ScanIdle == text = << >> /\ input = << >> /\ tokens = << >> /\ last = "idle"

\* no name conversion is in use
KindIdle == kind = "Word" /\ name = "" /\ shown = None /\ parsed = None

\* no builder or tokenizer is in use
TokIdle ==
    out = << >> /\ builder = BuilderNew /\ calls = << >> /\ tokenizer = None

\* is_junk is not in use
JunkIdle == word = << >> /\ junk = None

\* no HashtagParts is in use
HashIdle == hashtagParts = None /\ emitted = << >> /\ partsLast = "idle"

\* no NGrams is in use
GramIdle ==
    /\ items = << >>
    /\ ngrams = None
    /\ grams = << >>
    /\ gramsLast = "idle"
    /\ hint = None

\* no tokenizer is shared
ShareIdle == scans = << >>

OtherIdle == JunkIdle /\ HashIdle /\ GramIdle /\ ShareIdle

(***************************************************************************)
(* The scanner, pulled by its caller                                       *)
(***************************************************************************)
\* WordTokens::from(value) for some text
ScanInit ==
    /\ text \in Texts
    /\ input = text
    /\ tokens = << >>
    /\ last = "new"
    /\ KindIdle
    /\ TokIdle
    /\ OtherIdle

\* the inputs a scanner of one of the texts can hold: the text and its
\* suffixes
Inputs == UNION { { Drop(t, k) : k \in 0..Len(t) } : t \in Texts }

\* next() on each of these inputs
NextOf == [ s \in Inputs |-> WordTokensNext(s) ]

\* next() returned r = Some(token).  A text of n characters holds at most
\* n tokens, which caps the list the caller keeps.
ReturnSome(r) ==
    /\ r.some
    /\ Len(tokens) <= Len(text)
    /\ tokens' = Append(tokens, WordToken(r, input, Len(text)))
    /\ input' = r.input
    /\ last' = "some"
    /\ UNCHANGED << text, kindVars, tokVars,
                 otherVars >>

\* next() returned r = None
ReturnNone(r) ==
    /\ ~r.some
    /\ input' = r.input
    /\ last' = "none"
    /\ UNCHANGED << text, tokens, kindVars, tokVars,
                 otherVars >>

\* a scanner with a flag: the compound-word attempt is made by the first
\* call of next() only
NextSomeFirstCallCompound ==
    ReturnSome(IF tokens = << >> THEN NextOf[input]
               ELSE NextChompedNoCompound(Chomp(input)))

\* next() returns Some(token)
NextSome == ReturnSome(NextOf[input])

\* next() returns None: nothing is left once the junk is trimmed
NextNone == ReturnNone(NextOf[input])

ScanNext == NextSome \/ NextNone

Spec == ScanInit /\ [][ScanNext]_vars

\* the caller keeps calling next()
FairSpec == Spec /\ WF_vars(ScanNext)

(***************************************************************************)
(* The names of the kinds                                                  *)
(***************************************************************************)
KindInit ==
    /\ kind \in WordTokenKind
    /\ name \in Names
    /\ shown = None
    /\ parsed = None
    /\ ScanIdle
    /\ TokIdle
    /\ OtherIdle

\* kind.as_str()
CallAsStr ==
    /\ shown' = Some(AsStr(kind))
    /\ UNCHANGED << kind, name, parsed, scanVars, tokVars,
                 otherVars >>

\* WordTokenKind::from_str(name), also reached as name.parse()
CallFromStr ==
    /\ parsed' = Some(FromStr(name))
    /\ UNCHANGED << kind, name, shown, scanVars, tokVars,
                 otherVars >>

\* WordTokenKind::from_str(kind.as_str())
CallRoundTrip ==
    /\ shown.some
    /\ name' = shown.value
    /\ parsed' = Some(FromStr(shown.value))
    /\ UNCHANGED << kind, shown, scanVars, tokVars,
                 otherVars >>

KindNext == CallAsStr \/ CallFromStr \/ CallRoundTrip

KindSpec == KindInit /\ [][KindNext]_vars

(***************************************************************************)
(* The builder, the tokenizer it builds and one tokenize(text)             *)
(***************************************************************************)
\* WordTokenizerBuilder::new()
TokInit == TokIdle /\ ScanIdle /\ KindIdle /\ OtherIdle

\* a call on the builder, as the ghost list calls records it
Call(method, words, kinds, count) ==
    [method |-> method, words |-> words, kinds |-> kinds, count |-> count]

\* the builder is still there (build consumes it) and takes one more call
CanCall == ~tokenizer.some /\ Len(calls) < MaxCalls

\* the builder becomes b by the call c
Called(b, c) ==
    /\ CanCall
    /\ builder' = b
    /\ calls' = Append(calls, c)
    /\ UNCHANGED << out, tokenizer, scanVars, kindVars,
                 otherVars >>

CallInsertStopword ==
    \E w \in StopwordChoices :
        Called(InsertStopword(builder, w),
               Call("insert_stopword", << w >>, {}, 0))

CallStopwords ==
    \E ws \in StopwordLists :
        Called(Stopwords(builder, ws), Call("stopwords", ws, {}, 0))

CallTokenKindBlacklist ==
    \E ks \in KindChoices :
        Called(TokenKindBlacklist(builder, ks),
               Call("token_kind_blacklist", << >>, ks, 0))

CallTokenKindWhitelist ==
    \E ks \in KindChoices :
        Called(TokenKindWhitelist(builder, ks),
               Call("token_kind_whitelist", << >>, ks, 0))

CallMinTokenCharCount ==
    \E n \in CountChoices :
        Called(MinTokenCharCount(builder, n),
               Call("min_token_char_count", << >>, {}, n))

CallMaxTokenCharCount ==
    \E n \in CountChoices :
        Called(MaxTokenCharCount(builder, n),
               Call("max_token_char_count", << >>, {}, n))

CallFilterJunk ==
    Called(FilterJunk(builder), Call("filter_junk", << >>, {}, 0))

\* builder.build()
CallBuild ==
    /\ ~tokenizer.some
    /\ tokenizer' = Some(Build(builder))
    /\ UNCHANGED << out, builder, calls, scanVars, kindVars,
                 otherVars >>

\* WordTokenizer::new(), with no builder
CallTokenizerNew ==
    /\ ~tokenizer.some
    /\ calls = << >>
    /\ tokenizer' = Some(TokenizerNew)
    /\ UNCHANGED << out, builder, calls, scanVars, kindVars,
                 otherVars >>

\* tokenizer.tokenize(text): the scanner of the text, under the filter
CallTokenize ==
    /\ tokenizer.some
    /\ last = "idle"
    /\ \E t \in TokenizedTexts : text' = t /\ input' = t
    /\ tokens' = << >>
    /\ out' = << >>
    /\ last' = "new"
    /\ UNCHANGED << builder, calls, tokenizer, kindVars,
                 otherVars >>

RECURSIVE FilterNext(_, _, _, _)

\* Filter::next once the scanner, of input s, returned r: pulled lists the
\* tokens the scanner returned during this call
Filtered(tk, r, s, n, pulled) ==
    IF ~r.some THEN [some |-> FALSE, input |-> r.input, pulled |-> pulled]
    ELSE IF TokenPredicate(tk, WordToken(r, s, n))
    THEN [some |-> TRUE, token |-> WordToken(r, s, n), input |-> r.input,
          pulled |-> Append(pulled, WordToken(r, s, n))]
    ELSE FilterNext(tk, r.input, n, Append(pulled, WordToken(r, s, n)))

\* Filter::next: pull the scanner until a token passes token_predicate
FilterNext(tk, s, n, pulled) == Filtered(tk, NextOf[s], s, n, pulled)

\* the iterator returned r = Some(token)
YieldSome(r) ==
    /\ r.some
    /\ out' = Append(out, r.token)
    /\ tokens' = tokens \o r.pulled
    /\ input' = r.input
    /\ last' = "some"
    /\ UNCHANGED << text, builder, calls, tokenizer, kindVars,
                 otherVars >>

\* the iterator returned r = None
YieldNone(r) ==
    /\ ~r.some
    /\ tokens' = tokens \o r.pulled
    /\ input' = r.input
    /\ last' = "none"
    /\ UNCHANGED << text, out, builder, calls, tokenizer, kindVars,
                 otherVars >>

\* next() of the iterator of tokenize returns Some(token)
TokenizeNextSome ==
    /\ last \in { "new", "some" }
    /\ YieldSome(FilterNext(tokenizer.value, input, Len(text), << >>))

\* next() of the iterator of tokenize returns None
TokenizeNextNone ==
    /\ last \in { "new", "some", "none" }
    /\ YieldNone(FilterNext(tokenizer.value, input, Len(text), << >>))

TokNext ==
    \/ CallInsertStopword
    \/ CallStopwords
    \/ CallTokenKindBlacklist
    \/ CallTokenKindWhitelist
    \/ CallMinTokenCharCount
    \/ CallMaxTokenCharCount
    \/ CallFilterJunk
    \/ CallBuild
    \/ CallTokenizerNew
    \/ CallTokenize
    \/ TokenizeNextSome
    \/ TokenizeNextNone

TokSpec == TokInit /\ [][TokNext]_vars

(***************************************************************************)
(* Offsets, in bytes as Rust counts them                                   *)
(***************************************************************************)
\* the byte offset of the cursor in text
Cursor == ByteLen(text) - ByteLen(input)

TokenStart(t) == ByteLen(Take(text, t.start))

TokenEnd(t) == TokenStart(t) + ByteLen(t.text)

\* the characters of text, by index, that lie in the span of some token
Covered ==
    { k \in 1..Len(text) :
        \E i \in 1..Len(tokens) :
            tokens[i].start < k /\ k <= tokens[i].start + Len(tokens[i].text) }

\* the characters of text, by index, that the cursor has passed
Consumed == 1..(Len(text) - Len(input))

\* the kinds and texts of a token sequence, what a caller compares
KindText(q) == [ i \in DOMAIN q |-> [kind |-> q[i].kind, text |-> q[i].text] ]

\* a consumed character that no token covers
Skipped == Consumed \ Covered

\* some token cut by the French branch of parse_compound_word ends right
\* before character k
AfterClitic(k) ==
    \E i \in 1..Len(tokens) :
        /\ tokens[i].branch = "clitic"
        /\ tokens[i].start + Len(tokens[i].text) = k - 1

(***************************************************************************)
(* Properties of the scanner                                               *)
(***************************************************************************)
\* C1: the cursor only moves forward.  Every call of next() that returns a
\* token leaves strictly fewer bytes of input, the tokens returned so far
\* start at strictly increasing byte offsets, and the span of a token ends
\* no later than the next one starts.
C1_CursorForward ==
    /\ [](\A i, j \in 1..Len(tokens) :
            i < j => /\ TokenStart(tokens[i]) < TokenStart(tokens[j])
                     /\ TokenEnd(tokens[i]) <= TokenStart(tokens[j]))
    /\ [][tokens' # tokens =>
            /\ ByteLen(input') < ByteLen(input)
            /\ TokenEnd(tokens'[Len(tokens')]) <= ByteLen(text) - ByteLen(input')
         ]_vars

\* three tokens returned, one of them of several bytes, with text left
C1_Witness ==
    /\ Len(tokens) >= 3
    /\ \E i \in 1..Len(tokens) : ByteLen(tokens[i].text) > Len(tokens[i].text)
    /\ input # << >>

\* C2 as stated: every consumed character outside the token spans is a
\* control character or whitespace
C2_OnlyJunkSkipped ==
    \A k \in Skipped : IsAsciiJunkOrWhitespace(text[k])

\* C2, amended: every consumed character outside the token spans is a
\* control character, whitespace, or the one hyphen that follows a token cut
\* by the French-clitic truncation of a compound word
C2_JunkOrCliticHyphenSkipped ==
    \A k \in Skipped :
        \/ IsAsciiJunkOrWhitespace(text[k])
        \/ text[k] = "-" /\ AfterClitic(k)

\* a hyphen dropped after a clitic cut, and a separator skipped too
C2_Witness ==
    /\ \E k \in Skipped : text[k] = "-" /\ AfterClitic(k)
    /\ \E k \in Skipped : IsAsciiJunkOrWhitespace(text[k])

\* C3: no token returned has an empty text, whichever return of next()
\* produced it
C3_NoEmptyToken ==
    \A i \in 1..Len(tokens) : tokens[i].text # << >>

\* tokens from the clitic cut and from the punctuation branch were returned
C3_Witness ==
    /\ \E i \in 1..Len(tokens) : tokens[i].branch = "clitic"
    /\ \E i \in 1..Len(tokens) : tokens[i].branch = "punctuation"

\* C4: a caller that keeps calling next() gets None after finitely many
\* calls, and once None was returned every later call returns None and no
\* token
C4_Terminates ==
    /\ <>[](last = "none")
    /\ [][last = "none" => last' = "none" /\ tokens' = tokens]_vars

\* the scanner is exhausted after it returned several tokens
C4_Witness == last = "none" /\ Len(tokens) >= 2

C6_FromStrExact ==
    /\ Cardinality({ AsStr(k) : k \in WordTokenKind }) = 8
    /\ parsed.some =>
        /\ parsed.value.ok = (\E k \in WordTokenKind : name = AsStr(k))
        /\ parsed.value.ok => /\ parsed.value.value \in WordTokenKind
                              /\ AsStr(parsed.value.value) = name
        /\ ~parsed.value.ok => DOMAIN parsed.value = { "ok", "error" }
    /\ (shown.some /\ parsed.some /\ name = shown.value) =>
           parsed.value = Ok(kind)

\* from_str was handed the name of a variant, not its as_str name, after a
\* round trip of another kind
C6_Witness ==
    /\ parsed.some
    /\ ~parsed.value.ok
    /\ name = "Punctuation"
    /\ shown = Some("punct")

(***************************************************************************)
(* Properties of the tokenizer                                             *)
(***************************************************************************)
\* the calls that set the kind filter
KindCalls ==
    SelectSeq(calls, LAMBDA c : c.method \in { "token_kind_blacklist",
                                               "token_kind_whitelist" })

\* the kinds the last of these calls asks to drop
KindsToDrop ==
    IF KindCalls = << >> THEN {}
    ELSE IF KindCalls[Len(KindCalls)].method = "token_kind_blacklist"
    THEN KindCalls[Len(KindCalls)].kinds
    ELSE WordTokenKind \ KindCalls[Len(KindCalls)].kinds

\* the tokens yielded so far, as a set (a token holds its offset, so no two
\* tokens of a text are equal)
Yielded == { out[i] : i \in DOMAIN out }

\* C7: the kind filter of the built tokenizer is set by the last call of
\* token_kind_blacklist or token_kind_whitelist alone: the kinds of a
\* blacklist call, the complement of the kinds of a whitelist call; no token
\* of these kinds is yielded, and the kind of every token yielded is
\* outside them
C7_LastKindCallWins ==
    tokenizer.some =>
        /\ tokenizer.value.kind_blacklist = KindsToDrop
        /\ \A i \in DOMAIN tokens :
               tokens[i].kind \in KindsToDrop => tokens[i] \notin Yielded
        /\ \A i \in DOMAIN out : out[i].kind \notin KindsToDrop

\* a whitelist call then a blacklist call, and a tokenization that ended
\* after it dropped a token for its kind and yielded one of a kind the
\* whitelist alone would have dropped
C7_Witness ==
    /\ Len(KindCalls) = 2
    /\ KindCalls[1].method = "token_kind_whitelist"
    /\ KindCalls[2].method = "token_kind_blacklist"
    /\ last = "none"
    /\ \E i \in DOMAIN tokens : tokens[i].kind \in KindsToDrop
    /\ \E i \in DOMAIN out : out[i].kind \notin KindCalls[1].kinds

RECURSIVE IsSubsequence(_, _)
\* a is b with some elements removed
IsSubsequence(a, b) ==
    IF a = << >> THEN TRUE
    ELSE IF b = << >> THEN FALSE
    ELSE IF Head(a) = Head(b) THEN IsSubsequence(Tail(a), Tail(b))
    ELSE IsSubsequence(a, Tail(b))

\* C8: the tokens tokenize yields are tokens of the scanner of the same
\* text, same kind, same text at the same offset, in the same order; the
\* tokenizer of a builder no call was made on, once exhausted, has yielded
\* every token of the scanner
C8_SubsequenceOfScanner ==
    /\ IsSubsequence(out, ScanAll(text))
    /\ (tokenizer.some /\ calls = << >> /\ last = "none") =>
           out = ScanAll(text)

\* a tokenization that ended, kept some tokens and removed others
C8_Witness ==
    /\ last = "none"
    /\ out # << >>
    /\ Len(out) < Len(tokens)

\* the text is, up to letter case, a non-empty word of the list
InStoplist(t, stoplist) ==
    \E i \in DOMAIN stoplist :
        stoplist[i] # << >> /\ FoldSeq(stoplist[i]) = FoldSeq(t)

\* the four conditions of C9 on a token
Retained(tk, stoplist, token) ==
    /\ token.kind \notin tk.kind_blacklist
    /\ tk.min_token_char_count.some =>
           Len(token.text) >= tk.min_token_char_count.value
    /\ tk.max_token_char_count.some =>
           Len(token.text) <= tk.max_token_char_count.value
    /\ ~InStoplist(token.text, stoplist)
    /\ (tk.filter_junk /\ token.kind = "Word") => ~IsJunk(token.text)

\* C9: of the tokens the scanner returned, tokenize yields those whose kind
\* is not excluded, whose character count is within the bounds set, whose
\* text is not in the stoplist and, when junk filtering is on and the kind
\* is Word, whose text is not junk; and no others
C9_RetainedIff ==
    tokenizer.some =>
        out = SelectSeq(tokens,
                        LAMBDA t : Retained(tokenizer.value,
                                            builder.stoplist, t))

\* junk filtering is on; a URL of more than 30 bytes was yielded and a junk
\* word was not
C9_Witness ==
    /\ tokenizer.some
    /\ tokenizer.value.filter_junk
    /\ \E i \in DOMAIN out :
           out[i].kind = "Url" /\ ByteLen(out[i].text) > JunkByteLimit
    /\ \E i \in DOMAIN tokens :
           /\ tokens[i].kind = "Word"
           /\ IsJunk(tokens[i].text)
           /\ tokens[i] \notin Yielded

\* the calls that add stopwords
StopwordCalls ==
    SelectSeq(calls, LAMBDA c : c.method \in { "insert_stopword",
                                               "stopwords" })

\* every stopword these calls were handed
GivenStopwords ==
    UNION { { StopwordCalls[i].words[j] :
                j \in DOMAIN StopwordCalls[i].words } :
            i \in DOMAIN StopwordCalls }

\* the stoplist of the tokenizer removes the text
StoplistRemoves(t) ==
    /\ tokenizer.value.stoplist_regex.some
    /\ IsMatch(tokenizer.value.stoplist_regex.value, t)

\* C10: the stoplist removes a token exactly when its whole text is, up to
\* letter case, one of the non-empty stopwords handed to insert_stopword or
\* stopwords by any of the calls; a token it removes is not yielded
C10_StoplistExact ==
    tokenizer.some =>
        \A i \in DOMAIN tokens :
            /\ StoplistRemoves(tokens[i].text) =
                   (\E w \in GivenStopwords :
                        w # << >> /\ FoldSeq(w) = FoldSeq(tokens[i].text))
            /\ StoplistRemoves(tokens[i].text) => tokens[i] \notin Yielded

\* two calls gave the stopwords le, Chat and ble: "Le" and "chat" and "ble"
\* were removed, "leb" was yielded
C10_Witness ==
    /\ Len(StopwordCalls) = 2
    /\ << "l", "e" >> \in GivenStopwords
    /\ last = "none"
    /\ \E i \in DOMAIN tokens :
           tokens[i].text = << "L", "e" >> /\ tokens[i] \notin Yielded
    /\ \E i \in DOMAIN tokens :
           tokens[i].text = << "c", "h", "a", "t" >>
           /\ tokens[i] \notin Yielded
    /\ \E i \in DOMAIN out : out[i].text = << "l", "e", "b" >>

\* the last call of the method on the builder, if any
LastCall(method) ==
    LET made == SelectSeq(calls, LAMBDA c : c.method = method)
    IN  IF made = << >> THEN None ELSE Some(made[Len(made)].count)

\* the count of characters is within the bounds lo and hi that are set
WithinBounds(chars, lo, hi) ==
    /\ lo.some => lo.value <= chars
    /\ hi.some => chars <= hi.value

\* the token passes the filters other than the two bounds
PassesOtherFilters(tk, stoplist, token) ==
    /\ token.kind \notin tk.kind_blacklist
    /\ ~InStoplist(token.text, stoplist)
    /\ (tk.filter_junk /\ token.kind = "Word") => ~IsJunk(token.text)

\* C11: the bounds given to min_token_char_count and max_token_char_count
\* are compared, inclusively, with the number of characters (Unicode scalar
\* values) of the token, not with its length in bytes: a token yielded has
\* min <= count <= max for the bounds that are set, and a token that passes
\* the other filters and is not yielded has a count outside them
C11_CharCountBounds ==
    tokenizer.some =>
        \A i \in DOMAIN tokens :
            /\ tokens[i] \in Yielded =>
                   WithinBounds(Len(tokens[i].text),
                                LastCall("min_token_char_count"),
                                LastCall("max_token_char_count"))
            /\ ( /\ tokens[i] \notin Yielded
                 /\ PassesOtherFilters(tokenizer.value, builder.stoplist,
                                       tokens[i]) ) =>
                   ~WithinBounds(Len(tokens[i].text),
                                 LastCall("min_token_char_count"),
                                 LastCall("max_token_char_count"))

\* min 3: the token of 2 characters and 4 bytes was dropped, est was
\* yielded
C11_Witness ==
    /\ LastCall("min_token_char_count") = Some(3)
    /\ last = "none"
    /\ \E i \in DOMAIN tokens :
           /\ tokens[i].text = << "C", "U+2019" >>
           /\ ByteLen(tokens[i].text) = 4
           /\ tokens[i] \notin Yielded
    /\ \E i \in DOMAIN out : out[i].text = << "e", "s", "t" >>

(***************************************************************************)
(* is_junk, called on a string                                             *)
(***************************************************************************)
\* the characters of the strings enumerated for is_junk: a vowel, a
\* consonant, a character that is not alphabetic
JunkAlphabet == { "a", "b", "'" }

\* the longest string enumerated exhaustively over JunkAlphabet
MaxJunkLen == 6

\* the strings of test_is_junk, and strings at the limits: double letters
\* (bookkeeper, committee), 22 characters in 33 bytes, 30 bytes
JunkVectors ==
    { << "a", "e", "a", "e", "a", "e", "a" >>,
      << "a", "e", "a", "e", "a", "e" >>,
      << "c", "b", "c", "b", "c", "b", "c", "b" >>,
      << "c", "b", "c", "b", "c", "b", "c" >>,
      << "p", "a", "l", "t", "o", "q", "u", "e", "t" >>,
      << "a", "z", "a", "z", "a", "z", "a", "z", "a", "z", "a", "z", "a",
         "z", "a", "z", "a", "z", "a", "z", "a", "z", "a", "z", "a", "z",
         "a", "z", "a", "z", "a", "z", "a", "z", "a", "z", "a", "z" >>,
      << "d" >>, << "d", "'" >>,
      << "c", "r", "U+00E9", "U+00E9" >>,
      << "c", "r", "U+00E9", "U+00E9", "e" >>,
      << "c", "r", "e", "e", "e" >>,
      << "c", "r", "e", "e", "e", "e" >>,
      << "T", "A", "T", "A" >>,
      << "b", "o", "o", "k", "k", "e", "e", "p", "e", "r" >>,
      << "c", "o", "m", "m", "i", "t", "t", "e", "e" >>,
      << "U+00E9", "b", "U+00E9", "b", "U+00E9", "b", "U+00E9", "b",
         "U+00E9", "b", "U+00E9", "b", "U+00E9", "b", "U+00E9", "b",
         "U+00E9", "b", "U+00E9", "b", "U+00E9", "b" >>,
      << "a", "z", "a", "z", "a", "z", "a", "z", "a", "z", "a", "z", "a",
         "z", "a", "z", "a", "z", "a", "z", "a", "z", "a", "z", "a", "z",
         "a", "z", "a", "z" >> }

\* the strings handed to is_junk
JunkWords ==
    UNION { [ 1..n -> JunkAlphabet ] : n \in 0..MaxJunkLen } \cup JunkVectors

JunkInit ==
    /\ word \in JunkWords
    /\ junk = None
    /\ ScanIdle
    /\ KindIdle
    /\ TokIdle
    /\ HashIdle
    /\ GramIdle
    /\ ShareIdle

\* is_junk(word)
CallIsJunk ==
    /\ ~junk.some
    /\ junk' = Some(IsJunk(word))
    /\ UNCHANGED << word, scanVars, kindVars, tokVars, hashVars, gramVars,
                    shareVars >>

JunkNext == CallIsJunk

JunkSpec == JunkInit /\ [][JunkNext]_vars

(***************************************************************************)
(* Properties of is_junk                                                   *)
(***************************************************************************)
\* some character of s occurs n times in a row
HasRepeat(s, n) ==
    \E i \in 1..(Len(s) - n + 1) : \A j \in i..(i + n - 1) : s[j] = s[i]

\* s holds n characters of the class C in a row
HasRun(s, C, n) ==
    \E i \in 1..(Len(s) - n + 1) : \A j \in i..(i + n - 1) : s[j] \in C

\* the four conditions of the junk heuristic; a character that is not a
\* letter counts as of the punctuation class
JunkByRules(s) ==
    \/ ByteLen(s) > 30
    \/ HasRepeat(s, 4)
    \/ HasRun(s, Vowels, 7)
    \/ HasRun(s, Alpha \ Vowels, 8)
    \/ \A i \in DOMAIN s : s[i] \in Alpha \ Vowels

\* C12: is_junk(text) is true exactly when the text is longer than 30
\* bytes, or some character is repeated more than 3 times in a row, or
\* there are more than 6 vowels or more than 7 consonants in a row, or the
\* text has no vowel and no character of the punctuation class
C12_JunkExact == junk.some => junk.value = JunkByRules(word)

(***************************************************************************)
(* Properties of the rules of the scanner.  A token holds the offset it    *)
(* starts at, so the input its call of next() saw, once trimmed, is known. *)
(***************************************************************************)
\* the input the scanner held at the token, leading junk trimmed
Remaining(token) == Drop(text, token.start)

\* the input left right after the token was returned (the last one only)
LeftAfterLast == input

\* w is a run of segments of letters and digits joined by '-', '_' or the
\* middle dot: it starts with a letter or digit, holds a joiner, every run
\* of joiners is followed by a letter or digit, and a segment after a
\* joiner may carry apostrophes past its first character (chef-d'oeuvre)
IsJoinedRun(w) ==
    /\ w # << >>
    /\ w[1] \in AlphaDigit
    /\ \E k \in DOMAIN w : w[k] \in Joiners
    /\ \A k \in DOMAIN w :
           \/ w[k] \in AlphaDigit
           \/ /\ w[k] \in Joiners
              /\ k < Len(w)
              /\ w[k + 1] \in Joiners \cup AlphaDigit
           \/ /\ w[k] \in Apostrophes
              /\ w[k - 1] \in AlphaDigit \cup Apostrophes
              /\ \E j \in 1..(k - 1) : w[j] \in Joiners

\* the length of the maximal such run at the start of s, 0 when none
JoinedRunEnd(s) ==
    LET ends == { e \in 1..Len(s) : IsJoinedRun(Take(s, e)) }
    IN  IF ends = {} THEN 0
        ELSE CHOOSE e \in ends : \A d \in ends : d <= e

\* the tail of the span is a hyphen and a clitic of the French list (the
\* "-t" that may precede it is part of the span)
EndsWithClitic(span) ==
    \E w \in Clitics :
        /\ Len(span) > Len(w)
        /\ FoldSeq(SubSeq(span, Len(span) - Len(w), Len(span)))
               = << "-" >> \o w

\* the place of the first hyphen of the span
HyphenOf(span) ==
    CHOOSE h \in DOMAIN span :
        span[h] = "-" /\ \A j \in 1..(h - 1) : span[j] # "-"

\* what C13 says of one token, where e is the end of the maximal joined
\* run at its cursor and isLast tells that next() has not been called
\* since it returned the token
CompoundRule(token, rest, e, isLast) ==
    e > 0 =>
        /\ token.kind = "Word"
        /\ IF ~EndsWithClitic(Take(rest, e))
           THEN /\ token.text = Take(rest, e)
                /\ isLast => LeftAfterLast = Drop(rest, e)
           ELSE /\ token.text = Take(rest, HyphenOf(Take(rest, e)) - 1)
                /\ isLast =>
                       LeftAfterLast = Drop(rest, HyphenOf(Take(rest, e)))

\* C13: a maximal run of segments of letters and digits joined by '-', '_'
\* or the middle dot at the cursor is returned as one Word token, unless
\* the run ends with a hyphen and a French clitic: then the token is the
\* text before the first hyphen of the run and the scanner resumes at the
\* character after that hyphen
C13_CompoundOrClitic ==
    \A i \in DOMAIN tokens :
        CompoundRule(tokens[i], Remaining(tokens[i]),
                     JoinedRunEnd(Remaining(tokens[i])),
                     i = Len(tokens) /\ last = "some")

\* va-t-on est-il 15-20-minute vas-y: va, t, on were cut at the hyphens
\* and 15-20-minute was returned whole
C13_Witness ==
    /\ Len(tokens) >= 6
    /\ tokens[1].text = << "v", "a" >>
    /\ tokens[2].text = << "t" >>
    /\ tokens[3].text = << "o", "n" >>
    /\ EndsWithClitic(Take(Remaining(tokens[1]),
                           JoinedRunEnd(Remaining(tokens[1]))))
    /\ tokens[6].text = Take(Remaining(tokens[6]), 12)
    /\ JoinedRunEnd(Remaining(tokens[6])) = 12

\* the enclitics of C14, without their apostrophe
EnglishEnclitics ==
    { << "l", "l" >>, << "r", "e" >>, << "v", "e" >>, << "d" >>, << "m" >>,
      << "s" >> }

\* the number of letters at the start of s
LetterRun(s) ==
    IF s = << >> \/ s[1] \notin Alpha THEN 0
    ELSE CHOOSE n \in 1..Len(s) :
             /\ \A k \in 1..n : s[k] \in Alpha
             /\ (n < Len(s) => s[n + 1] \notin Alpha)

\* s, from its character i on, reads the enclitic w and then stops being a
\* word: the end of s, or a character that is no letter, digit, mark or
\* connector
EncliticAt(s, i, w) ==
    /\ i + Len(w) - 1 <= Len(s)
    /\ FoldSeq(SubSeq(s, i, i + Len(w) - 1)) = w
    /\ (i + Len(w) <= Len(s) => s[i + Len(w)] \notin WordChars)

\* the text of s from its character a to its character b
Span(s, a, b) == SubSeq(s, a, b)

\* what C14 says of the token returned at the input rest, which starts
\* with n letters: the token, and the one returned after it if any (a
\* token is its own successor when it is the last one)
ApostropheGolden(token, after, isLast, rest, n) ==
    /\ \A w \in EnglishEnclitics :
           ( /\ n >= 1
             /\ n + 1 <= Len(rest)
             /\ rest[n + 1] \in Apostrophes
             /\ EncliticAt(rest, n + 2, w) ) =>
               /\ token.kind = "Word"
               /\ token.text = Span(rest, 1, n)
               /\ ~isLast => /\ after.kind = "Word"
                             /\ after.text = Span(rest, n + 1, n + 1 + Len(w))
                             /\ after.start = token.start + n
    /\ ( /\ n >= 2
         /\ n + 2 <= Len(rest)
         /\ FoldSeq(Span(rest, n, n)) = << "n" >>
         /\ rest[n + 1] \in Apostrophes
         /\ FoldSeq(Span(rest, n + 2, n + 2)) = << "t" >> ) =>
           /\ token.kind = "Word"
           /\ token.text = Span(rest, 1, n + 2)
    /\ ( /\ n = 7
         /\ Len(rest) >= 11
         /\ FoldSeq(Span(rest, 1, 7)) = << "a", "u", "j", "o", "u", "r", "d" >>
         /\ rest[8] \in Apostrophes
         /\ FoldSeq(Span(rest, 9, 11)) = << "h", "u", "i" >> ) =>
           /\ token.kind = "Word"
           /\ token.text = Span(rest, 1, 11)

\* C14: where the input starts with a word made of letters only, then an
\* apostrophe and one of ll, re, ve, d, m, s at a word boundary, the scanner
\* returns the word as a Word token and the apostrophe with the enclitic as
\* the next Word token; a run of letters that ends in n, followed by an
\* apostrophe and t, and the word aujourd'hui, are each one Word token
C14_EncliticSplit ==
    \A i \in DOMAIN tokens :
        ApostropheGolden(tokens[i],
                         tokens[IF i < Len(tokens) THEN i + 1 ELSE i],
                         i = Len(tokens), Remaining(tokens[i]),
                         LetterRun(Remaining(tokens[i])))

\* They'll Aren't I'm aujourd'hui: They, 'll, Aren't, I, 'm, aujourd'hui
C14_Witness ==
    /\ Len(tokens) = 6
    /\ tokens[1].text = << "T", "h", "e", "y" >>
    /\ tokens[2].text = << "'", "l", "l" >>
    /\ tokens[3].text = << "A", "r", "e", "n", "'", "t" >>
    /\ tokens[4].text = << "I" >>
    /\ tokens[5].text = << "'", "m" >>
    /\ Len(tokens[6].text) = 11
    /\ last = "none"

\* w is an optional '-', digits, and at most one '.' or ',' followed by
\* digits
IsNumberShape(w) ==
    LET body == IF w # << >> /\ w[1] = "-" THEN Tail(w) ELSE w
        seps == { k \in DOMAIN body : body[k] \in { ".", "," } }
    IN  /\ body # << >>
        /\ \A k \in DOMAIN body : body[k] \in Digit \cup { ".", "," }
        /\ Cardinality(seps) <= 1
        /\ \A k \in seps : 1 < k /\ k < Len(body)

\* the number of digits at the start of s
DigitRun(s) ==
    IF s = << >> \/ s[1] \notin Digit THEN 0
    ELSE CHOOSE n \in 1..Len(s) :
             /\ \A k \in 1..n : s[k] \in Digit
             /\ (n < Len(s) => s[n + 1] \notin Digit)

\* the number of letters and digits at the start of s
AlphaDigitRun(s) ==
    IF s = << >> \/ s[1] \notin AlphaDigit THEN 0
    ELSE CHOOSE n \in 1..Len(s) :
             /\ \A k \in 1..n : s[k] \in AlphaDigit
             /\ (n < Len(s) => s[n + 1] \notin AlphaDigit)

\* the text of n characters at the start of s is followed by the end of s
\* or by whitespace
EndsWord(s, n) == n = Len(s) \/ s[n + 1] \in Whitespace

\* the lengths of the prefixes of s that have the shape of a number and
\* that whitespace or the end of s follows
NumberWords(s) ==
    { n \in 1..Len(s) : IsNumberShape(Take(s, n)) /\ EndsWord(s, n) }

\* what C15 says of the token returned at the input rest, which starts
\* with d digits and with run letters and digits
NumberRule(token, rest, d, run) ==
    /\ token.kind = "Number" =>
           /\ IsNumberShape(token.text)
           /\ Len(token.text) < Len(rest) =>
                  rest[Len(token.text) + 1] \notin WordChars
    /\ \A n \in NumberWords(rest) :
           token.kind = "Number" /\ token.text = Take(rest, n)
    /\ (d >= 1 /\ d < Len(rest) /\ rest[d + 1] \in Alpha) =>
           /\ token.kind # "Number"
           /\ EndsWord(rest, run) =>
                  token.kind = "Word" /\ token.text = Take(rest, run)

\* C15: a Number token is an optional '-', digits and at most one '.' or
\* ',' followed by digits, and it ends at a word boundary; such a text
\* standing alone is returned as a Number; digits directly followed by
\* letters are never returned as a Number (2d and 7even are Words)
C15_NumberShape ==
    \A i \in DOMAIN tokens :
        NumberRule(tokens[i], Remaining(tokens[i]),
                   DigitRun(Remaining(tokens[i])),
                   AlphaDigitRun(Remaining(tokens[i])))

\* 2 2.5 -2 -2.5 2,5 1.2.3 2d 7even: five Numbers, then 1.2, a period, 3,
\* then the Words 2d and 7even
C15_Witness ==
    /\ Len(tokens) = 10
    /\ \A i \in 1..5 : tokens[i].kind = "Number"
    /\ tokens[4].text = << "-", "2", ".", "5" >>
    /\ tokens[5].text = << "2", ",", "5" >>
    /\ tokens[6].kind = "Number" /\ tokens[6].text = << "1", ".", "2" >>
    /\ tokens[7].kind = "Punctuation" /\ tokens[7].text = << "." >>
    /\ tokens[8].kind = "Number" /\ tokens[8].text = << "3" >>
    /\ tokens[9].kind = "Word" /\ tokens[9].text = << "2", "d" >>
    /\ tokens[10].kind = "Word"
    /\ tokens[10].text = << "7", "e", "v", "e", "n" >>

(***************************************************************************)
(* hashtags.rs: HashtagParts, the iterator over the sub-words of a hashtag *)
(***************************************************************************)
\* enum HashtagSplitterState
HashtagSplitterState == { "UpperStart", "UpperNext", "Number", "Lower" }

\* char::is_numeric: Nd, Nl, No
Numeric == Digit \cup { "U+2082" }

\* the byte index of the character after the first k characters of s
ByteIndex(s, k) == ByteLen(Take(s, k))

\* str::is_char_boundary
IsCharBoundary(s, b) == \E k \in 0..Len(s) : ByteIndex(s, k) = b

\* &s[a..b], a and b byte indices on character boundaries
ByteSlice(s, a, b) ==
    SubSeq(s, (CHOOSE k \in 0..Len(s) : ByteIndex(s, k) = a) + 1,
              CHOOSE k \in 0..Len(s) : ByteIndex(s, k) = b)

\* HashtagParts::try_from: chars counts the characters the CharIndices has
\* handed out, two of them here: the '#' and the first one of the body
TryFrom(hashtag) ==
    IF hashtag = << >> THEN Err(<< >>)
    ELSE IF hashtag[1] # "#" /\ hashtag[1] # "$" THEN Err(<< >>)
    ELSE IF Len(hashtag) >= 2
    THEN Ok([ input |-> hashtag, offset |-> 1, state |-> "UpperStart",
              done |-> FALSE, chars |-> 2 ])
    ELSE Err(<< >>)

\* the match on self.state in next: (Some(delta) or None, the next state)
HashtagTransition(st, c) ==
    CASE st = "Lower" ->
           IF c \in Upper THEN << Some(0), "UpperStart" >>
           ELSE IF c \in Numeric THEN << Some(0), "Number" >>
           ELSE << None, "Lower" >>
      [] st = "UpperStart" ->
           IF c \in Lower THEN << None, "Lower" >>
           ELSE IF c \in Numeric THEN << Some(0), "Number" >>
           ELSE << None, "UpperNext" >>
      [] st = "UpperNext" ->
           IF c \in Lower THEN << Some(1), "Lower" >>
           ELSE IF c \in Numeric THEN << Some(0), "Number" >>
           ELSE << None, "UpperNext" >>
      [] st = "Number" ->
           IF c \notin Numeric
           THEN IF c \in Upper THEN << Some(0), "UpperStart" >>
                ELSE << Some(0), "Lower" >>
           ELSE << None, "Number" >>

\* "return Some(&input[current_offset..i - delta])": the slice panics when
\* i - delta is inside a character
Emit(h, to) ==
    IF IsCharBoundary(h.input, to) /\ h.offset <= to
    THEN [ outcome |-> "some", part |-> ByteSlice(h.input, h.offset, to),
           self |-> [h EXCEPT !.offset = to] ]
    ELSE [ outcome |-> "panic", part |-> << >>,
           self |-> [h EXCEPT !.offset = to] ]

RECURSIVE HashtagLoop(_)

\* one turn of the loop of next on the character the iterator hands out,
\* at byte index i, with result = HashtagTransition(state, c)
HashtagTurn(h, i, result) ==
    IF result[1].some
    THEN Emit([h EXCEPT !.state = result[2], !.chars = h.chars + 1],
              i - result[1].value)
    ELSE HashtagLoop([h EXCEPT !.state = result[2], !.chars = h.chars + 1])

\* the loop of next
HashtagLoop(h) ==
    IF h.chars < Len(h.input)
    THEN HashtagTurn(h, ByteIndex(h.input, h.chars),
                     HashtagTransition(h.state, h.input[h.chars + 1]))
    ELSE [ outcome |-> "some",
           part |-> ByteSlice(h.input, h.offset, ByteLen(h.input)),
           self |-> [h EXCEPT !.done = TRUE] ]

\* <HashtagParts as Iterator>::next
HashtagPartsNext(h) ==
    IF h.done THEN [ outcome |-> "none", part |-> << >>, self |-> h ]
    ELSE HashtagLoop(h)

\* the characters of the hashtag bodies enumerated: a lowercase letter, an
\* uppercase letter, a digit, an uppercase letter of two bytes (E acute)
HashtagAlphabet == { "a", "B", "1", "U+00C9" }

\* the longest body enumerated exhaustively over HashtagAlphabet
MaxBodyLen == 4

\* hashtags of split_hashtag_test, a year, and strs try_from refuses
HashtagVectors ==
    { << "#", "T", "e", "s", "t", "O", "k", "F", "i", "n", "a", "l" >>,
      << "#", "T", "D", "F", "2", "0", "1", "8" >>,
      << "#", "W", "o", "r", "d", "p", "r", "e", "s", "s", "I", "D", "I",
         "n", "f", "o", "r", "m", "a", "t", "i", "o", "n" >>,
      << "#", "8", "Y", "e", "a", "r", "s", "O", "f", "O", "n", "e" >>,
      << "$", "T", "h", "e", "I", "D", "2", "0", "1", "8" >>,
      << "#", "2", "0", "1", "8" >>,
      << "#", "i", "O", "S" >>,
      << "#" >>, << >>, << "a", "B" >>, << "@", "a" >> }

\* the strs handed to HashtagParts::try_from
Hashtags ==
    { << "#" >> \o b :
        b \in UNION { [ 1..n -> HashtagAlphabet ] : n \in 1..MaxBodyLen } }
    \cup HashtagVectors

\* HashtagParts::try_from(hashtag) for some str
HashInit ==
    /\ \E h \in Hashtags : hashtagParts = TryFrom(h)
    /\ emitted = << >>
    /\ partsLast = "new"
    /\ ScanIdle
    /\ KindIdle
    /\ TokIdle
    /\ JunkIdle
    /\ GramIdle
    /\ ShareIdle

\* next() is called on the HashtagParts and does r
PartsReturn(r) ==
    /\ partsLast' = r.outcome
    /\ hashtagParts' = Ok(r.self)
    /\ emitted' = IF r.outcome = "some" THEN Append(emitted, r.part)
                  ELSE emitted
    /\ UNCHANGED << scanVars, kindVars, tokVars, junkVars, gramVars,
                    shareVars >>

\* next() on the iterator try_from returned, unless a call panicked
CanPull == hashtagParts.ok /\ partsLast \in { "new", "some", "none" }

\* next() returns Some(part)
PartsNextSome ==
    /\ CanPull
    /\ HashtagPartsNext(hashtagParts.value).outcome = "some"
    /\ PartsReturn(HashtagPartsNext(hashtagParts.value))

\* next() returns None
PartsNextNone ==
    /\ CanPull
    /\ HashtagPartsNext(hashtagParts.value).outcome = "none"
    /\ PartsReturn(HashtagPartsNext(hashtagParts.value))

\* next() panics on a byte index that is inside a character
PartsNextPanic ==
    /\ CanPull
    /\ HashtagPartsNext(hashtagParts.value).outcome = "panic"
    /\ PartsReturn(HashtagPartsNext(hashtagParts.value))

HashNext == PartsNextSome \/ PartsNextNone \/ PartsNextPanic

HashSpec == HashInit /\ [][HashNext]_vars

(***************************************************************************)
(* Properties of the hashtag segmenter                                     *)
(***************************************************************************)
\* the body of the hashtag: the text after the leading '#' or '$'
Body == Tail(hashtagParts.value.input)

\* the places j of the body where C16 puts a boundary between the
\* characters j and j + 1
BoundariesByRules(b) ==
    { j \in 1..(Len(b) - 1) :
        \/ b[j] \in Lower /\ b[j + 1] \in Upper
        \/ b[j] \in Lower /\ b[j + 1] \in Digit
        \/ b[j] \in Upper /\ b[j + 1] \in Digit
        \/ b[j] \in Digit /\ b[j + 1] \in Lower \cup Upper
        \/ /\ b[j] \in Upper /\ b[j + 1] \in Upper
           /\ j + 2 <= Len(b) /\ b[j + 2] \in Lower }

RECURSIVE TotalLen(_)
\* the number of characters of the parts together
TotalLen(q) == IF q = << >> THEN 0 ELSE Len(Head(q)) + TotalLen(Tail(q))

\* the places of the body where the sub-words returned end, the last
\* sub-word left out
EmittedBoundaries ==
    { TotalLen(SubSeq(emitted, 1, k)) : k \in 1..(Len(emitted) - 1) }

\* C16: over the whole body of the hashtag, its first character included,
\* the segmenter puts a boundary between two adjacent characters exactly
\* at: lowercase to uppercase, lowercase to digit, uppercase to digit,
\* digit to letter, and one letter before the end of an uppercase run that
\* a lowercase letter follows; nowhere else, never between two digits
C16_BoundariesExact ==
    (hashtagParts.ok /\ partsLast = "none") =>
        EmittedBoundaries = BoundariesByRules(Body)

(***************************************************************************)
(* tokenizers/ngrams.rs: NGrams, the iterator ngrams(n) returns            *)
(***************************************************************************)
\* the items of the sequences enumerated
GramItems == { "the", "cat" }

\* the longest sequence enumerated
MaxItems == 4

\* the largest n enumerated
MaxGram == 3

\* the sequences ngrams is called on: every one of at most MaxItems items,
\* and the sentence of test_ngrams
GramSequences ==
    UNION { [ 1..l -> GramItems ] : l \in 0..MaxItems }
    \cup { << "the", "cat", "eats", "the", "mouse" >> }

\* ngrams_len; checked_sub(n - 1) is None when n - 1 exceeds the tokens
NgramsLen(count, n) ==
    IF n < 1 \/ count = 0 THEN 0
    ELSE IF count >= n - 1 THEN count - (n - 1)
    ELSE 1

\* <NGrams as Iterator>::size_hint, the inner iterator being one that
\* knows how many items it has left
SizeHint(g) ==
    [ lower |-> NgramsLen(Len(g.inner), g.n),
      upper |-> Some(NgramsLen(Len(g.inner), g.n)) ]

\* NGrams::new(n, inner), n >= 1
NGramsNew(n, inner) == [ n |-> n, deque |-> << >>, inner |-> inner ]

\* rotate that fills the buffer once the deque has moved
RotateAfterPush(g, next_item) ==
    [ some |-> TRUE, gram |-> Append(Tail(g.deque), next_item),
      self |-> [g EXCEPT !.deque = Append(Tail(g.deque), next_item)] ]

\* NGrams::rotate, as next returns it: the buffer is a copy of the deque,
\* then the deque drops its front and takes next_item
Rotate(g, next_item) ==
    [ some |-> TRUE, gram |-> g.deque,
      self |-> [g EXCEPT !.deque = Append(Tail(g.deque), next_item)] ]

\* NGrams::flush, as next returns it
Flush(g) ==
    IF g.deque = << >> THEN [ some |-> FALSE, gram |-> << >>, self |-> g ]
    ELSE [ some |-> TRUE, gram |-> g.deque,
           self |-> [g EXCEPT !.deque = << >>] ]

RECURSIVE NGramsNext(_)

\* the Some(item) arm of next, the item taken from inner
NGramsTake(g, item) ==
    IF Len(g.deque) < g.n
    THEN NGramsNext([g EXCEPT !.deque = Append(g.deque, item)])
    ELSE Rotate(g, item)

\* <NGrams as Iterator>::next
NGramsNext(g) ==
    IF g.inner = << >> THEN Flush(g)
    ELSE NGramsTake([g EXCEPT !.inner = Tail(g.inner)], Head(g.inner))

\* sequence.ngrams(n)
GramInit ==
    /\ items \in GramSequences
    /\ \E n \in 1..MaxGram : ngrams = Some(NGramsNew(n, items))
    /\ grams = << >>
    /\ gramsLast = "new"
    /\ hint = None
    /\ ScanIdle
    /\ KindIdle
    /\ TokIdle
    /\ JunkIdle
    /\ HashIdle
    /\ ShareIdle

\* next() of the NGrams returned r
GramsReturn(r) ==
    /\ ngrams' = Some(r.self)
    /\ grams' = IF r.some THEN Append(grams, r.gram) ELSE grams
    /\ gramsLast' = IF r.some THEN "some" ELSE "none"
    /\ UNCHANGED << items, hint, scanVars, kindVars, tokVars, junkVars,
                    hashVars, shareVars >>

\* next() returns Some(gram)
GramsNextSome ==
    /\ ngrams.some
    /\ NGramsNext(ngrams.value).some
    /\ GramsReturn(NGramsNext(ngrams.value))

\* next() returns None
GramsNextNone ==
    /\ ngrams.some
    /\ ~NGramsNext(ngrams.value).some
    /\ GramsReturn(NGramsNext(ngrams.value))

\* size_hint() of the NGrams just made, whose inner iterator knows its
\* length
CallSizeHint ==
    /\ ngrams.some
    /\ gramsLast = "new"
    /\ ~hint.some
    /\ hint' = Some(SizeHint(ngrams.value))
    /\ UNCHANGED << items, ngrams, grams, gramsLast, scanVars, kindVars,
                    tokVars, junkVars, hashVars, shareVars >>

GramNext == GramsNextSome \/ GramsNextNone \/ CallSizeHint

GramSpec == GramInit /\ [][GramNext]_vars

(***************************************************************************)
(* Properties of ngrams                                                    *)
(***************************************************************************)
\* the windows of n consecutive items of q, in order; q itself when it is
\* shorter than n and not empty
Windows(q, n) ==
    IF q = << >> THEN << >>
    ELSE IF Len(q) < n THEN << q >>
    ELSE [ k \in 1..(Len(q) - n + 1) |-> SubSeq(q, k, k + n - 1) ]

\* C17: for a sequence of l items and n >= 1, ngrams(n) yields in order
\* exactly the l - n + 1 windows items[k..k+n] when l >= n, the whole
\* sequence as one gram when 0 < l < n, and nothing when l = 0
C17_Windows ==
    ngrams.some =>
        /\ Len(grams) <= Len(Windows(items, ngrams.value.n))
        /\ grams = SubSeq(Windows(items, ngrams.value.n), 1, Len(grams))
        /\ gramsLast = "none" => grams = Windows(items, ngrams.value.n)

\* the three bigrams of a sequence of four items were yielded, then None
C17_Witness ==
    /\ gramsLast = "none"
    /\ ngrams.value.n = 2
    /\ Len(items) = 4
    /\ Len(grams) = 3
    /\ grams[3] = SubSeq(items, 3, 4)

(***************************************************************************)
(* One WordTokenizer behind a shared reference: tokenize(&self, text) is   *)
(* called several times and the iterators it returned are pulled in any    *)
(* order                                                                   *)
(***************************************************************************)
\* the most iterators in use at once over the shared tokenizer
MaxScans == 2

\* the tokenizers shared: the default one, one with the stoplist
\* ["Chat", "ble"] and the junk filter, one without numbers and with a
\* minimum of two characters
SharedTokenizers ==
    { TokenizerNew }
    \cup { Build(FilterJunk(Stopwords(BuilderNew, ws))) : ws \in StopwordLists }
    \cup { Build(MinTokenCharCount(
               TokenKindBlacklist(BuilderNew, { "Number" }), 2)) }

\* a tokenizer was built and nothing was tokenized yet
ShareInit ==
    /\ tokenizer \in { Some(tk) : tk \in SharedTokenizers }
    /\ scans = << >>
    /\ out = << >>
    /\ builder = BuilderNew
    /\ calls = << >>
    /\ ScanIdle
    /\ KindIdle
    /\ JunkIdle
    /\ HashIdle
    /\ GramIdle

\* the iterator tokenize(t) returns: WordTokens::from(t) under the filter
\* closure, which borrows the tokenizer
NewScan(t) == [ text |-> t, input |-> t, out |-> << >>, last |-> "new" ]

\* tokenizer.tokenize(t), by one more caller
ShareTokenize ==
    /\ tokenizer.some
    /\ Len(scans) < MaxScans
    /\ \E t \in TokenizedTexts : scans' = Append(scans, NewScan(t))
    /\ UNCHANGED << scanVars, kindVars, tokVars, junkVars, hashVars,
                    gramVars >>

\* a pull after which every iterator reads on from where this one stopped
ScanPulledSharedCursor(all, i, r) ==
    [ j \in DOMAIN all |->
        IF j = i
        THEN [ all[j] EXCEPT
                 !.input = r.input,
                 !.out = IF r.some THEN Append(@, r.token) ELSE @,
                 !.last = IF r.some THEN "some" ELSE "none" ]
        ELSE [ all[j] EXCEPT !.input = r.input ] ]

\* the iterators once next() of the i-th one returned r: its scanner moved,
\* the others and the tokenizer were not touched
ScanPulled(all, i, r) ==
    [ all EXCEPT ![i] =
        [ @ EXCEPT !.input = r.input,
                   !.out = IF r.some THEN Append(@, r.token) ELSE @,
                   !.last = IF r.some THEN "some" ELSE "none" ] ]

\* next() of the i-th iterator
SharedNext(i) ==
    FilterNext(tokenizer.value, scans[i].input, Len(scans[i].text), << >>)

\* next() of one of the iterators returns Some(token)
SharePullSome ==
    \E i \in DOMAIN scans :
        /\ SharedNext(i).some
        /\ scans' = ScanPulled(scans, i, SharedNext(i))
        /\ UNCHANGED << scanVars, kindVars, tokVars, junkVars, hashVars,
                        gramVars >>

\* next() of one of the iterators returns None
SharePullNone ==
    \E i \in DOMAIN scans :
        /\ ~SharedNext(i).some
        /\ scans' = ScanPulled(scans, i, SharedNext(i))
        /\ UNCHANGED << scanVars, kindVars, tokVars, junkVars, hashVars,
                        gramVars >>

ShareNext == ShareTokenize \/ SharePullSome \/ SharePullNone

ShareSpec == ShareInit /\ [][ShareNext]_vars

(***************************************************************************)
(* Properties of the shared tokenizer                                      *)
(***************************************************************************)
RECURSIVE TokenizeRest(_, _, _)
\* what the iterator of tk.tokenize, pulled alone until None, yields from
\* the input s of a text of n characters
TokenizeRest(tk, s, n) ==
    LET r == FilterNext(tk, s, n, << >>)
    IN  IF r.some THEN << r.token >> \o TokenizeRest(tk, r.input, n)
        ELSE << >>

\* tk.tokenize(t).collect()
TokenizeAlone(tk, t) == TokenizeRest(tk, t, Len(t))

\* the i-th iterator has yielded what it yields alone, so far
AsAlone(i) ==
    LET alone == TokenizeAlone(tokenizer.value, scans[i].text)
    IN  /\ Len(scans[i].out) <= Len(alone)
        /\ scans[i].out = SubSeq(alone, 1, Len(scans[i].out))
        /\ scans[i].last = "none" => scans[i].out = alone

UrlFirstKinds ==
    << "Url", "Email", "Word", "Word", "Hashtag", "Mention", "Number",
       "Emoji" >>

\* the match of each of these rules at the start of s
UrlFirstEnds(s) ==
    << UrlMatch(s), EmailMatch(s), AbbreviationMatch(s), AcronymMatch(s),
       HashtagMatch(s), MentionMatch(s), NumberMatch(s), EmojiMatch(s) >>

\* the token is what the first rule of that order that matches gives
IsFirstOf(token, rest, ends) ==
    (\E p \in DOMAIN ends : ends[p] > 0) =>
        LET first == CHOOSE p \in DOMAIN ends :
                         ends[p] > 0 /\ \A q \in 1..(p - 1) : ends[q] = 0
        IN  /\ token.kind = UrlFirstKinds[first]
            /\ token.text = Take(rest, ends[first])

\* C19: where the compound-word attempt gave no token, the token is the
\* match of the first rule that matches in the order URL, Email,
\* abbreviation, acronym, Hashtag/Mention, Number, Emoji; so an input that
\* the Email pattern matches gives an Email token even when the Number,
\* Hashtag or Mention pattern matches it too
C19_UrlEmailFirst ==
    \A i \in DOMAIN tokens :
        tokens[i].branch \notin { "compound", "clitic" } =>
            IsFirstOf(tokens[i], Remaining(tokens[i]),
                      UrlFirstEnds(Remaining(tokens[i])))

(***************************************************************************)
(* The five apostrophe rules at one cursor                                 *)
(***************************************************************************)
\* the rules of APOSTROPHE_REGEX that match s
MatchingRules(s) == { p \in 1..5 : ApostropheEnds(s)[p] > 0 }

\* the rules that match at the cursor of each token returned
RulesAt(i) == MatchingRules(Remaining(tokens[i]))

\* C20 as stated: at every cursor position at most one of the five
\* apostrophe rules matches the remaining input
C20_AtMostOneRule ==
    \A i \in DOMAIN tokens : Cardinality(RulesAt(i)) <= 1

\* what the amended C20 says of one token, M being the rules that match
\* the input `rest` at its cursor
OverlapRule(token, rest, M) ==
    /\ \/ Cardinality(M) <= 1
       \/ M = { 3, 5 }
       \/ M = { 4, 5 }
    /\ (token.branch = "apostrophe") =>
           /\ M # {}
           /\ \E p \in M :
                  /\ \A q \in M : p <= q
                  /\ token.text = Take(rest, ApostropheEnds(rest)[p])

\* C20, amended: rules 1 and 2 match with no other rule and rules 3 and 4
\* never match together, but rule 5 can match where rule 3 or rule 4
\* matches; the token the apostrophe rules give is then the capture of the
\* earlier rule
C20_EarlierRuleDecides ==
    \A i \in DOMAIN tokens :
        OverlapRule(tokens[i], Remaining(tokens[i]), RulesAt(i))

\* m'appeler: the article rule and the name rule both match, and the token
\* is the article m'
C20_Witness ==
    \E i \in DOMAIN tokens :
        /\ RulesAt(i) = { 3, 5 }
        /\ tokens[i].branch = "apostrophe"
        /\ tokens[i].text = << "m", "'" >>
        /\ NameMatch(Remaining(tokens[i])) = 9

(***************************************************************************)
(* The elided article                                                      *)
(***************************************************************************)
\* the length of the "qu" or of the one letter of c, d, j, l, m, n, s, t
\* the input starts with, 0 when it starts with neither
ElidedLetters(rest) ==
    IF Len(rest) >= 2 /\ FoldSeq(Span(rest, 1, 2)) = << "q", "u" >> THEN 2
    ELSE IF Len(rest) >= 1
            /\ FoldSeq(Span(rest, 1, 1)) \in
                   { << "c" >>, << "d" >>, << "j" >>, << "l" >>, << "m" >>,
                     << "n" >>, << "s" >>, << "t" >> }
    THEN 1
    ELSE 0

\* the input starts with a consonant of the list or qu, an apostrophe, then
\* a vowel, h, # or @
ArticleShape(rest, c) ==
    /\ c > 0
    /\ c + 2 <= Len(rest)
    /\ rest[c + 1] \in Apostrophes
    /\ \/ rest[c + 2] \in Vowels
       \/ FoldSeq(Span(rest, c + 2, c + 2)) = << "h" >>
       \/ rest[c + 2] \in { "#", "@" }

\* the first character after the letters that follow the apostrophe of the
\* shape (one past the end of the input when there is none)
AfterLetters(rest, c) ==
    IF rest[c + 2] \in { "#", "@" } /\ c + 3 <= Len(rest)
       /\ rest[c + 3] \notin Alpha
    THEN c + 3
    ELSE CHOOSE k \in (c + 3)..(Len(rest) + 1) :
             /\ \A j \in (c + 3)..(k - 1) : rest[j] \in Alpha
             /\ k <= Len(rest) => rest[k] \notin Alpha

\* the shape is closed by a word boundary: a letter follows the # or @, or
\* the letters after the apostrophe are followed by no letter, digit, mark
\* or connector
ArticleClosed(rest, c) ==
    IF rest[c + 2] \in { "#", "@" }
    THEN c + 3 <= Len(rest) /\ rest[c + 3] \in WordChars
    ELSE AfterLetters(rest, c) > Len(rest)
         \/ rest[AfterLetters(rest, c)] \notin WordChars

\* C21 as stated: whenever the input starts with a consonant (or qu), an
\* apostrophe, then a vowel, h, # or @, the token is the consonant with the
\* apostrophe
C21_ArticleAlwaysSplit ==
    \A i \in DOMAIN tokens :
        ArticleShape(Remaining(tokens[i]),
                     ElidedLetters(Remaining(tokens[i]))) =>
            /\ tokens[i].kind = "Word"
            /\ tokens[i].text =
                   Span(Remaining(tokens[i]), 1,
                        ElidedLetters(Remaining(tokens[i])) + 1)

\* what the amended C21 says of the token returned at the input rest, c
\* being ElidedLetters(rest), and of the token returned after it if any
ArticleRule(token, after, hasNext, rest, c) ==
    ArticleShape(rest, c) =>
        /\ token.kind = "Word"
        /\ IF ArticleClosed(rest, c)
           THEN /\ token.text = Span(rest, 1, c + 1)
                /\ hasNext => after.start = token.start + c + 1
           ELSE token.text = Span(rest, 1, c)

\* C21, amended: where the input starts with one of c, d, j, l, m, n, s, t
\* (or qu), an apostrophe, then a vowel, h, # or @, and the letters that
\* follow end at a word boundary, the token is the consonant with the
\* apostrophe and the next token starts right after the apostrophe; where
\* no word boundary ends the shape, the token is the consonant alone
C21_ArticleSplitAtBoundary ==
    \A i \in DOMAIN tokens :
        ArticleRule(tokens[i], tokens[IF i < Len(tokens) THEN i + 1 ELSE i],
                    i < Len(tokens), Remaining(tokens[i]),
                    ElidedLetters(Remaining(tokens[i])))

\* L'#amour l'@ange!: L', Hashtag #amour, l', Mention @ange, !
C21_Witness ==
    /\ Len(tokens) = 5
    /\ tokens[1].text = << "L", "'" >>
    /\ tokens[2].kind = "Hashtag"
    /\ tokens[2].text = << "#", "a", "m", "o", "u", "r" >>
    /\ tokens[3].text = << "l", "'" >>
    /\ tokens[4].kind = "Mention"
    /\ tokens[4].start = 11

(***************************************************************************)
(* The English contraction after one letter                                *)
(***************************************************************************)
\* the input is a letter, an apostrophe and the enclitic w at a word
\* boundary
ContractionShape(rest, w) ==
    /\ Len(rest) >= 3
    /\ rest[1] \in Alpha
    /\ rest[2] \in Apostrophes
    /\ EncliticAt(rest, 3, w)

\* C22 as stated: where the input is a letter, an apostrophe and one of
\* ll, re, ve, d, m, s at a word boundary, the token is the letter, the
\* apostrophe and the enclitic together
C22_ContractionWhole ==
    \A i \in DOMAIN tokens :
        \A w \in EnglishEnclitics :
            ContractionShape(Remaining(tokens[i]), w) =>
                tokens[i].text = Span(Remaining(tokens[i]), 1, 2 + Len(w))

\* what the amended C22 says of the token returned at the input rest and
\* of the token returned after it if any
ContractionRule(token, after, hasNext, rest) ==
    /\ \A w \in EnglishEnclitics :
           ContractionShape(rest, w) =>
               /\ token.kind = "Word"
               /\ token.text = Span(rest, 1, 1)
               /\ hasNext => /\ after.kind = "Word"
                             /\ after.text = Span(rest, 2, 2 + Len(w))
                             /\ after.start = token.start + 1
    /\ ( /\ token.branch = "apostrophe"
         /\ Len(token.text) = 1 ) =>
           \E w \in EnglishEnclitics : ContractionShape(rest, w)

\* C22, amended: where the input is a letter, an apostrophe and one of ll,
\* re, ve, d, m, s at a word boundary, rule 4 gives the letter alone as a
\* Word token, and the apostrophe with the enclitic is the next Word token;
\* the apostrophe rules give a one-letter token only when this exact shape
\* occurs
C22_ContractionLetterOnly ==
    \A i \in DOMAIN tokens :
        ContractionRule(tokens[i],
                        tokens[IF i < Len(tokens) THEN i + 1 ELSE i],
                        i < Len(tokens), Remaining(tokens[i]))

\* I'll be. 'tis a: I, then 'll
C22_Witness ==
    /\ Len(tokens) >= 2
    /\ tokens[1].text = << "I" >>
    /\ tokens[1].branch = "apostrophe"
    /\ tokens[2].text = << "'", "l", "l" >>
    /\ ContractionShape(text, << "l", "l" >>)

(***************************************************************************)
(* The name-initial elision                                                *)
(***************************************************************************)
\* the end of the name the input starts with: one of d, l, m, n, o, an
\* apostrophe, then letters that end at a word boundary; 0 when the input
\* starts with no such name
NameEnd(rest) ==
    IF /\ Len(rest) >= 3
       /\ FoldSeq(Span(rest, 1, 1)) \in
              { << "d" >>, << "l" >>, << "m" >>, << "n" >>, << "o" >> }
       /\ rest[2] \in Apostrophes
       /\ rest[3] \in Alpha
       /\ ( 2 + LetterRun(Drop(rest, 2)) < Len(rest) =>
              rest[3 + LetterRun(Drop(rest, 2))] \notin WordChars )
    THEN 2 + LetterRun(Drop(rest, 2))
    ELSE 0

\* C23 as stated: where the input starts with one of d, l, m, n, o, an
\* apostrophe, then letters, the whole span is one Word token, also where
\* the article rule would split it
C23_NameAlwaysWhole ==
    \A i \in DOMAIN tokens :
        NameEnd(Remaining(tokens[i])) > 0 =>
            /\ tokens[i].kind = "Word"
            /\ tokens[i].text =
                   Span(Remaining(tokens[i]), 1,
                        NameEnd(Remaining(tokens[i])))

\* what the amended C23 says of the token returned at the input rest,
\* e being NameEnd(rest)
NameRule(token, rest, e) ==
    /\ e > 0 =>
           /\ token.kind = "Word"
           /\ token.text =
                  IF ArticleShape(rest, ElidedLetters(rest))
                  THEN Span(rest, 1, 2)
                  ELSE IF \E w \in EnglishEnclitics :
                              ContractionShape(rest, w)
                  THEN Span(rest, 1, 1)
                  ELSE Span(rest, 1, e)
    /\ ( /\ token.branch = "apostrophe"
         /\ Len(token.text) >= 3
         /\ token.text[1] \in Alpha
         /\ token.text[2] \in Apostrophes ) =>
           /\ e > 0
           /\ token.text = Span(rest, 1, e)

\* C23, amended: where the input starts with one of d, l, m, n, o, an
\* apostrophe, then letters that end at a word boundary, the whole span is
\* one Word token unless rule 3 or rule 4 matches the same input: these
\* come first, so a vowel or h after d', l', m', n' gives the article and
\* an enclitic after the apostrophe gives the letter alone; only such
\* names are kept whole
C23_NameUnlessEarlierRule ==
    \A i \in DOMAIN tokens :
        NameRule(tokens[i], Remaining(tokens[i]),
                 NameEnd(Remaining(tokens[i])))

\* D'mitr M'Leod d's: the two names are whole, d's is cut after the d
C23_Witness ==
    /\ Len(tokens) = 4
    /\ tokens[1].text = << "D", "'", "m", "i", "t", "r" >>
    /\ tokens[2].text = << "M", "'", "L", "e", "o", "d" >>
    /\ tokens[3].text = << "d" >>
    /\ tokens[4].text = << "'", "s" >>
    /\ NameEnd(Remaining(tokens[3])) = 3

(***************************************************************************)
(* Digits grouped with '_'                                                 *)
(***************************************************************************)
\* w is a digit string with '_' for digit-group separator: groups of
\* digits, two at least, with one '_' between neighbours
IsGroupedDigits(w) ==
    /\ w # << >>
    /\ w[1] \in Digit
    /\ w[Len(w)] \in Digit
    /\ \E k \in DOMAIN w : w[k] = "_"
    /\ \A k \in DOMAIN w :
           \/ w[k] \in Digit
           \/ w[k] = "_" /\ w[k + 1] \in Digit

\* the length of the longest such string at the start of s, 0 when none
GroupedDigitsEnd(s) ==
    LET ends == { e \in 1..Len(s) : IsGroupedDigits(Take(s, e)) }
    IN  IF ends = {} THEN 0
        ELSE CHOOSE e \in ends : \A d \in ends : d <= e

\* C24 as stated: a digit string grouped with '_' at the cursor is one
\* token of kind Number
C24_GroupedDigitsNumber ==
    \A i \in DOMAIN tokens :
        GroupedDigitsEnd(Remaining(tokens[i])) > 0 =>
            /\ tokens[i].kind = "Number"
            /\ tokens[i].text =
                   Take(Remaining(tokens[i]),
                        GroupedDigitsEnd(Remaining(tokens[i])))

\* what the amended C24 says of the token returned at the input rest,
\* e being GroupedDigitsEnd(rest)
GroupedDigitsRule(token, rest, e) ==
    /\ e > 0 =>
           /\ token.kind = "Word"
           /\ Len(token.text) >= e
           /\ Take(token.text, e) = Take(rest, e)
    /\ token.kind = "Number" => \A k \in DOMAIN token.text :
                                    token.text[k] # "_"

\* C24, amended: a digit string grouped with '_' at the cursor is inside
\* one token, which the compound-word rule returns with the kind Word; no
\* Number token holds a '_'
C24_GroupedDigitsWord ==
    \A i \in DOMAIN tokens :
        GroupedDigitsRule(tokens[i], Remaining(tokens[i]),
                          GroupedDigitsEnd(Remaining(tokens[i])))

\* -1_0 2_5.5 1_000_000-y: -, 1_0, 2_5, ., 5, 1_000_000, y
C24_Witness ==
    /\ Len(tokens) = 7
    /\ tokens[2].text = << "1", "_", "0" >>
    /\ tokens[2].kind = "Word"
    /\ tokens[3].text = << "2", "_", "5" >>
    /\ tokens[5].kind = "Number"
    /\ Len(tokens[6].text) = 9
    /\ tokens[6].kind = "Word"
    /\ GroupedDigitsEnd(Remaining(tokens[6])) = 9

(***************************************************************************)
(* Acronyms                                                                *)
(***************************************************************************)
\* w is an uppercase letter, then one or more groups of a period and an
\* uppercase letter, then maybe a period
IsAcronym(w) ==
    /\ Len(w) >= 3
    /\ \A k \in DOMAIN w :
           IF k % 2 = 1 THEN w[k] \in Upper ELSE w[k] = "."

\* the length of the longest acronym at the start of s, 0 when none
AcronymEnd(s) ==
    LET ends == { e \in 1..Len(s) : IsAcronym(Take(s, e)) }
    IN  IF ends = {} THEN 0
        ELSE CHOOSE e \in ends : \A d \in ends : d <= e

\* C25: an acronym at the cursor, whatever its uppercase letters, is
\* returned whole as one Word token with its periods; the abbreviation
\* rule never cuts its first letter off
C25_AcronymWhole ==
    \A i \in DOMAIN tokens :
        AcronymEnd(Remaining(tokens[i])) > 0 =>
            /\ tokens[i].kind = "Word"
            /\ tokens[i].text =
                   Take(Remaining(tokens[i]),
                        AcronymEnd(Remaining(tokens[i])))

(***************************************************************************)
(* Control characters and whitespace                                       *)
(***************************************************************************)
\* the characters trimmed: the codepoints <= 0x1F and the whitespace
Trimmed == AsciiControl \cup Whitespace

\* the token has two letters with a trimmed character between them
JoinsLetterRuns(token) ==
    \E k \in 2..(Len(token.text) - 1) :
        /\ token.text[k] \in Trimmed
        /\ token.text[k - 1] \in Alpha
        /\ token.text[k + 1] \in Alpha

\* no token is empty or begins with a trimmed character, and a text of
\* trimmed characters only gives no token
NeverLeads ==
    /\ \A i \in DOMAIN tokens :
           /\ tokens[i].text # << >>
           /\ tokens[i].text[1] \notin Trimmed
    /\ (\A k \in DOMAIN text : text[k] \in Trimmed) => tokens = << >>

\* C26 as stated: no token begins with a control character or whitespace,
\* a text of such characters only gives no token, and such a character
\* between two letter runs always puts them in two tokens
C26_AlwaysSeparates ==
    /\ NeverLeads
    /\ \A i \in DOMAIN tokens : ~JoinsLetterRuns(tokens[i])

\* what the amended C26 says of the token returned at the input rest,
\* which starts with n letters
SeparatesRule(token, rest, n) ==
    /\ token.kind # "Url" =>
           \A k \in DOMAIN token.text : token.text[k] \notin Trimmed
    /\ token.kind = "Url" =>
           \A k \in DOMAIN token.text : token.text[k] \notin Whitespace
    /\ ( n >= 1 /\ n < Len(rest) /\ rest[n + 1] \in Trimmed ) =>
           token.text = Take(rest, n)

\* C26, amended: no token begins with a control character or whitespace
\* and a text of such characters only gives no token; a run of letters at
\* the cursor that such a character follows is a token of its own, and no
\* token holds such a character, but for a Url token, which runs over
\* control characters that are no whitespace
C26_SeparatesOutsideUrl ==
    /\ NeverLeads
    /\ \A i \in DOMAIN tokens :
           SeparatesRule(tokens[i], Remaining(tokens[i]),
                         LetterRun(Remaining(tokens[i])))

\* Wo\x10rd https://ab\x10cd x: Wo, rd, the Url with its control
\* character, x
C26_Witness ==
    /\ Len(tokens) = 4
    /\ tokens[1].text = << "W", "o" >>
    /\ tokens[2].text = << "r", "d" >>
    /\ tokens[3].kind = "Url"
    /\ JoinsLetterRuns(tokens[3])
    /\ tokens[4].text = << "x" >>

\* C27: the two bounds of size_hint of a fresh ngrams(n), that is
\* ngrams_len(l, n), are the number of grams the iterator yields, also for
\* a sequence shorter than n
C27_SizeHintExact ==
    ( hint.some /\ gramsLast = "none" ) =>
        /\ hint.value.lower = Len(grams)
        /\ hint.value.upper = Some(Len(grams))

(***************************************************************************)
(* tokenizers/ngrams.rs: NGramsRange, the iterator ngrams_range(a..=b)     *)
(* returns.  A window s..e is kept as the record [s, e], counted from 0    *)
(* as in the code.                                                         *)
(***************************************************************************)
\* NGramsRange::new(range, inner), range.start >= 1
NGramsRangeNew(a, b, inner) ==
    [ deque |-> << >>, range |-> [start |-> a, end |-> b],
      window |-> Some([s |-> 0, e |-> a]), first |-> TRUE, inner |-> inner ]

\* reset_window that leaves `first` as it is
ResetWindowKeepsFirst(g) ==
    [g EXCEPT !.window = Some([s |-> Len(g.deque) - g.range.start,
                               e |-> Len(g.deque)])]

\* NGramsRange::reset_window
ResetWindow(g) ==
    [g EXCEPT !.first = FALSE,
              !.window = Some([s |-> Len(g.deque) - g.range.start,
                               e |-> Len(g.deque)])]

\* the window flush leaves, w being the window it has just read
NextWindow(g, w) ==
    IF w.e = Len(g.deque)
    THEN IF (w.e - w.s) + 1 = Len(g.deque) + 1 THEN None
         ELSE IF g.first THEN Some([s |-> 0, e |-> (w.e - w.s) + 1])
         ELSE Some([s |-> Len(g.deque) - ((w.e - w.s) + 1),
                    e |-> Len(g.deque)])
    ELSE Some([s |-> w.s + 1, e |-> w.e + 1])

\* NGramsRange::flush
RangeFlush(g) ==
    IF g.window.some
    THEN [ some |-> TRUE,
           gram |-> SubSeq(g.deque, g.window.value.s + 1, g.window.value.e),
           self |-> [g EXCEPT !.window = NextWindow(g, g.window.value)] ]
    ELSE [ some |-> FALSE, gram |-> << >>, self |-> g ]

\* NGramsRange::flush_short
FlushShort(g) ==
    IF g.deque = << >> THEN [ some |-> FALSE, gram |-> << >>, self |-> g ]
    ELSE [ some |-> TRUE, gram |-> g.deque,
           self |-> [g EXCEPT !.window = None, !.deque = << >>] ]

\* NGramsRange::rotate
RangeRotate(g, next_item) ==
    [g EXCEPT !.deque = Append(Tail(g.deque), next_item)]

RECURSIVE NGramsRangeNext(_)

\* next() once the deque is full and flush returned r
RangeFlushed(r) ==
    IF r.some THEN r
    ELSE IF r.self.inner = << >> THEN RangeFlush(r.self)
    ELSE NGramsRangeNext(
             RangeRotate(ResetWindow([r.self EXCEPT !.inner = Tail(@)]),
                         Head(r.self.inner)))

\* <NGramsRange as Iterator>::next
NGramsRangeNext(g) ==
    IF Len(g.deque) < g.range.end
    THEN IF g.inner = << >>
         THEN IF Len(g.deque) < g.range.start THEN FlushShort(g)
              ELSE RangeFlush([g EXCEPT !.range.end = Len(g.deque)])
         ELSE NGramsRangeNext([g EXCEPT !.deque = Append(@, Head(g.inner)),
                                        !.inner = Tail(@)])
    ELSE RangeFlushed(RangeFlush(g))

\* sequence.ngrams_range(a..=b)
RangeInit ==
    /\ items \in GramSequences
    /\ \E a \in 1..MaxGram : \E b \in a..MaxGram :
           ngrams = Some(NGramsRangeNew(a, b, items))
    /\ grams = << >>
    /\ gramsLast = "new"
    /\ hint = None
    /\ ScanIdle
    /\ KindIdle
    /\ TokIdle
    /\ JunkIdle
    /\ HashIdle
    /\ ShareIdle

\* next() of the NGramsRange returns Some(gram)
RangeNextSome ==
    /\ ngrams.some
    /\ NGramsRangeNext(ngrams.value).some
    /\ GramsReturn(NGramsRangeNext(ngrams.value))

\* next() of the NGramsRange returns None
RangeNextNone ==
    /\ ngrams.some
    /\ ~NGramsRangeNext(ngrams.value).some
    /\ GramsReturn(NGramsRangeNext(ngrams.value))

RangeNext == RangeNextSome \/ RangeNextNone

RangeSpec == RangeInit /\ [][RangeNext]_vars

(***************************************************************************)
(* Properties of ngrams_range                                              *)
(***************************************************************************)
\* the range the iterator was made with (its end shrinks to the length of
\* a shorter sequence when the sequence runs out)
RangeStart == ngrams.value.range.start

\* the sizes of the windows due: from the start of the range to its end,
\* or to the length of the sequence if that is less
SizesDue(b) ==
    { n \in RangeStart..b : n <= Len(items) }

\* the windows due that equal x, each named by its size and its place
WindowsEqual(x, b) ==
    { nk \in SizesDue(b) \X (1..Len(items)) :
        /\ nk[2] + nk[1] - 1 <= Len(items)
        /\ SubSeq(items, nk[2], nk[2] + nk[1] - 1) = x }

\* how many of the grams yielded equal x
Yields(x) == Cardinality({ k \in DOMAIN grams : grams[k] = x })

\* every sequence of consecutive items
AllWindows ==
    { SubSeq(items, k, m) : k \in 1..Len(items), m \in 1..Len(items) }

\* what C28 says once the iterator made with the range a..=b has returned
\* None
RangeRule(a, b) ==
    /\ Len(items) >= a =>
           \A x \in AllWindows \cup { grams[k] : k \in DOMAIN grams } :
               Yields(x) = Cardinality(WindowsEqual(x, b))
    /\ ( Len(items) > 0 /\ Len(items) < a ) => grams = << items >>
    /\ Len(items) = 0 => grams = << >>
    /\ a = b => grams = Windows(items, a)

\* C28: for a sequence of l items and a range a..=b with 1 <= a <= b,
\* ngrams_range(a..=b) yields each window of each size from a to the
\* lesser of b and l exactly once, the whole sequence once when 0 < l < a,
\* nothing when l = 0, and for a range n..=n the grams of ngrams(n) in the
\* same order
C28_RangeWindows ==
    ( ngrams.some /\ gramsLast = "none" ) =>
        RangeRule(RangeStart, ngrams.value.range.end)

\* four items under the range 1..=3: four, three and two windows, the
\* last ones made after the deque has rotated
C28_Witness ==
    /\ gramsLast = "none"
    /\ Len(items) = 4
    /\ RangeStart = 1
    /\ ngrams.value.range.end = 3
    /\ ~ngrams.value.first
    /\ Len(grams) = 9
    /\ grams[9] = SubSeq(items, 2, 4)

(***************************************************************************)
(* Properties of the hashtag segmenter over characters of several bytes    *)
(***************************************************************************)
\* C29: for every hashtag try_from accepts, bodies with uppercase letters
\* of several bytes included, every cut falls on a character boundary of
\* the input: next() never panics on a byte index inside a character
C29_CutsOnCharBoundaries ==
    hashtagParts.ok =>
        /\ partsLast # "panic"
        /\ IsCharBoundary(hashtagParts.value.input,
                          hashtagParts.value.offset)

RECURSIVE Concat(_)
\* the parts one after the other
Concat(q) == IF q = << >> THEN << >> ELSE Head(q) \o Concat(Tail(q))

\* C30: for every hashtag try_from accepts, the sub-words returned are not
\* empty and, once the iteration is over, make up the body of the hashtag
\* in order; the pending span is flushed once and next() returns None from
\* then on
C30_PartsMakeUpBody ==
    hashtagParts.ok =>
        /\ \A k \in DOMAIN emitted : emitted[k] # << >>
        /\ partsLast \in { "none", "panic" } => Concat(emitted) = Body
        /\ partsLast = "none" => hashtagParts.value.done

====
